---- MODULE Spec2Model ----
(***************************************************************************)
(* A model of the anyways diagnostic pipeline: the Audit record and its    *)
(* construction API (audit.rs), the AnywaysAuditProcessor (processor.rs,   *)
(* processor/entry.rs, processor/file.rs), the visible-length measure      *)
(* (formatter.rs) and the alignment engine (align.rs).                     *)
(*                                                                         *)
(* Text is modelled as a sequence of characters, each character a string   *)
(* of length one; "ESC" stands for the single character 0x1b and "BOX"     *)
(* for the three-byte character U+2500.  An absent Option is None.         *)
(***************************************************************************)
EXTENDS Integers, Sequences, FiniteSets, TLC

VARIABLES
    audit,      \* the Audit: [backtrace, errors, custom_sections]
    processor,  \* the AnywaysAuditProcessor configuration and its environment
    sections,   \* the result of AuditProcessor::process, or None
    pushed,     \* history: the causes and sections handed in so far, in call order
    symbol,     \* the optional raw name handed to ProcessingEntry::new, if any
    entry,      \* the value ProcessingEntry::new produced, or None
    text,       \* the argument of get_length, if any
    length,     \* the result of get_length, or None
    call,       \* the arguments of align, if any
    aligned,    \* the outcome of align, or None
    result,     \* the Result or Option a wrap method is called on, then the one it returned
    wrapcall,   \* history: the last wrap call (method, receiver, argument, closure run), or None
    render,     \* the arguments of AnywaysAuditFormatter::format and the output it writes to, if any
    rendered,   \* the lines format wrote and what it returned, or None
    frame,      \* ProcessingEntry in the 'entry loop of create_backtrace_section: Option
    row,        \* write_section_entry on one entry, a step at a time
    itemname,   \* the optional name HowlerEntry::process_item is given
    itemresult, \* what process_item returned, or that it panicked
    howler,     \* ReportProcessor::format on one report, a step at a time
    HANDLER,    \* the static slot of handler.rs
    fmtcalls    \* the handler::fmt calls made so far, in order

vars == <<audit, processor, sections, pushed, symbol, entry, text, length, call, aligned, result, wrapcall, render, rendered, frame, row, itemname, itemresult, howler, HANDLER, fmtcalls>>

\* Option<T>: None, or Some(x)
None == <<>>
Some(x) == <<x>>
IsSome(o) == o # <<>>
Unwrap(o) == o[1]

(***************************************************************************)
(* Bounds of the model.                                                    *)
(***************************************************************************)
MaxErrs == 3
MaxSecs == 2
MaxSyms == 3
MaxFrags == 6
MaxText == 5
MaxEntries == 2
MaxWidth == 3
MaxFrames == 5
MaxWrites == 3
MaxPairs == 2
\* errors in a report handed to ReportProcessor::format
MaxReportErrs == 2
\* how far the counter of the numbered lines is followed in a source loop
MaxNumber == 4
\* handler::fmt calls in a series
MaxCalls == 3

(***************************************************************************)
(* Text helpers: the std::str operations the code calls.                   *)
(***************************************************************************)
\* s[from..] (1-based), the empty text when from is past the end
Drop(s, n) == SubSeq(s, n + 1, Len(s))

Take(s, n) == SubSeq(s, 1, n)

\* str::starts_with
starts_with(s, p) == Len(p) <= Len(s) /\ Take(s, Len(p)) = p

\* the first index at or after i where p occurs in s, 0 when there is none
RECURSIVE find_from(_, _, _)
find_from(s, p, i) ==
    IF i + Len(p) - 1 > Len(s) THEN 0
    ELSE IF SubSeq(s, i, i + Len(p) - 1) = p THEN i
    ELSE find_from(s, p, i + 1)

\* the last index at or before i where p occurs in s, 0 when there is none
RECURSIVE rfind_from(_, _, _)
rfind_from(s, p, i) ==
    IF i < 1 THEN 0
    ELSE IF SubSeq(s, i, i + Len(p) - 1) = p THEN i
    ELSE rfind_from(s, p, i - 1)

\* str::split_once: None, or the text before and after the first occurrence
split_once(s, p) ==
    LET i == find_from(s, p, 1)
    IN  IF i = 0 THEN None
        ELSE Some([left |-> Take(s, i - 1), right |-> Drop(s, i + Len(p) - 1)])

\* str::rsplit_once: None, or the text before and after the last occurrence
rsplit_once(s, p) ==
    LET i == rfind_from(s, p, Len(s) - Len(p) + 1)
    IN  IF i = 0 THEN None
        ELSE Some([left |-> Take(s, i - 1), right |-> Drop(s, i + Len(p) - 1)])

\* str::split: the segments between the non-overlapping occurrences of p
RECURSIVE split(_, _)
split(s, p) ==
    LET i == find_from(s, p, 1)
    IN  IF i = 0 THEN <<s>>
        ELSE <<Take(s, i - 1)>> \o split(Drop(s, i + Len(p) - 1), p)

\* str::replacen(p, to, 1): the first occurrence replaced
replacen1(s, p, to) ==
    LET i == find_from(s, p, 1)
    IN  IF i = 0 THEN s
        ELSE Take(s, i - 1) \o to \o Drop(s, i + Len(p) - 1)

\* str::replace: every non-overlapping occurrence replaced, left to right
RECURSIVE replace_all(_, _, _)
replace_all(s, p, to) ==
    LET i == find_from(s, p, 1)
    IN  IF i = 0 THEN s
        ELSE Take(s, i - 1) \o to \o replace_all(Drop(s, i + Len(p) - 1), p, to)

\* [String]::join
RECURSIVE join(_, _)
join(parts, sep) ==
    IF Len(parts) = 0 THEN <<>>
    ELSE IF Len(parts) = 1 THEN parts[1]
    ELSE parts[1] \o sep \o join(Tail(parts), sep)

\* the concatenation of a sequence of texts
RECURSIVE concat(_)
concat(parts) == IF Len(parts) = 0 THEN <<>> ELSE parts[1] \o concat(Tail(parts))

ColonColon == <<":", ":">>
As == <<" ", "a", "s", " ">>

(***************************************************************************)
(* formatter.rs: get_length                                                *)
(***************************************************************************)
\* a get_length step that counts the "m" ending an escape sequence
get_length_step_counts_m(st, ch) ==
    IF st.wait_m
    THEN [wait_m |-> ch # "m", len |-> IF ch = "m" THEN st.len + 1 ELSE st.len]
    ELSE IF ch = "ESC"
         THEN [wait_m |-> TRUE, len |-> st.len]
         ELSE [wait_m |-> FALSE, len |-> st.len + 1]

\* one iteration of the loop over text.chars()
get_length_step(st, ch) ==
    IF st.wait_m
    THEN [wait_m |-> ch # "m", len |-> st.len]
    ELSE IF ch = "ESC"
         THEN [wait_m |-> TRUE, len |-> st.len]
         ELSE [wait_m |-> FALSE, len |-> st.len + 1]

\* the loop over text.chars() from the lo-th to the hi-th character, in
\* order: the first half of the range, then the second half from its state
\* (the state of the first half is a value before the loop goes on with it)
RECURSIVE get_length_loop(_, _, _, _)
get_length_loop(st, s, lo, hi) ==
    IF lo > hi THEN st
    ELSE IF lo = hi THEN get_length_step(st, s[lo])
    ELSE CHOOSE done \in
             {get_length_loop(half, s, (lo + hi) \div 2 + 1, hi) :
                 half \in {get_length_loop(st, s, lo, (lo + hi) \div 2)}} : TRUE

get_length(s) == get_length_loop([wait_m |-> FALSE, len |-> 0], s, 1, Len(s)).len

(***************************************************************************)
(* processor/entry.rs: the symbol parser                                   *)
(***************************************************************************)
Unknown == [kind |-> "Unknown"]

\* a strip_hash that cuts at the first "::"
strip_hash_first(value) ==
    LET sp == split_once(value, ColonColon)
    IN  IF IsSome(sp) THEN Unwrap(sp).left ELSE value

\* ProcessingEntry::strip_hash
strip_hash(value) ==
    LET sp == rsplit_once(value, ColonColon)
    IN  IF IsSome(sp) THEN Unwrap(sp).left ELSE value

\* the state of the bracket scan before the first character
scan_init == [depth |-> 0, outside |-> FALSE, statement |-> <<>>, rest |-> <<>>]

\* a scan step that leaves the closing ">" in the text after the bracket
scan_step_keeps_close(st, ch) ==
    IF ~st.outside
    THEN IF ch = "<"
         THEN IF st.depth + 1 = 1
              THEN [st EXCEPT !.depth = st.depth + 1]
              ELSE [st EXCEPT !.depth = st.depth + 1,
                              !.statement = Append(st.statement, ch)]
         ELSE IF ch = ">"
              THEN IF st.depth - 1 = 0
                   THEN [st EXCEPT !.depth = st.depth - 1, !.outside = TRUE,
                                   !.rest = Append(st.rest, ch)]
                   ELSE [st EXCEPT !.depth = st.depth - 1,
                                   !.statement = Append(st.statement, ch)]
              ELSE [st EXCEPT !.statement = Append(st.statement, ch)]
    ELSE [st EXCEPT !.rest = Append(st.rest, ch)]

\* a scan step that goes on counting brackets after the closing ">"
scan_step_never_outside(st, ch) ==
    IF ch = "<"
    THEN IF st.depth + 1 = 1
         THEN [st EXCEPT !.depth = st.depth + 1]
         ELSE [st EXCEPT !.depth = st.depth + 1,
                         !.statement = Append(st.statement, ch)]
    ELSE IF ch = ">"
         THEN IF st.depth - 1 = 0
              THEN [st EXCEPT !.depth = st.depth - 1]
              ELSE [st EXCEPT !.depth = st.depth - 1,
                              !.statement = Append(st.statement, ch)]
         ELSE [st EXCEPT !.statement = Append(st.statement, ch)]

\* one iteration of the loop over value.chars() in acquire_value
scan_step(st, ch) ==
    IF ~st.outside
    THEN IF ch = "<"
         THEN IF st.depth + 1 = 1
              THEN [st EXCEPT !.depth = st.depth + 1]
              ELSE [st EXCEPT !.depth = st.depth + 1,
                              !.statement = Append(st.statement, ch)]
         ELSE IF ch = ">"
              THEN IF st.depth - 1 = 0
                   THEN [st EXCEPT !.depth = st.depth - 1, !.outside = TRUE]
                   ELSE [st EXCEPT !.depth = st.depth - 1,
                                   !.statement = Append(st.statement, ch)]
              ELSE [st EXCEPT !.statement = Append(st.statement, ch)]
    ELSE [st EXCEPT !.rest = Append(st.rest, ch)]

RECURSIVE scan_loop(_, _)
scan_loop(st, s) ==
    IF Len(s) = 0 THEN st ELSE scan_loop(scan_step(st, Head(s)), Tail(s))

\* the scan state after each character of value, in order
scan_states(value) == [i \in 1..Len(value) |-> scan_loop(scan_init, Take(value, i))]

\* the module and remainder of one side of a cast, or of a plain name
split_module(item) ==
    LET sp == split_once(item, ColonColon)
    IN  IF IsSome(sp)
        THEN [module |-> Some(Unwrap(sp).left), item |-> Unwrap(sp).right]
        ELSE [module |-> None, item |-> item]

\* ProcessingEntry::acquire_value
acquire_value(value) ==
    IF starts_with(value, <<"<">>)
    THEN LET st == scan_loop(scan_init, value)
             sp == split_once(st.statement, As)
         IN  IF IsSome(sp)
             THEN LET from == split_module(Unwrap(sp).left)
                      to == split_module(Unwrap(sp).right)
                  IN  [kind |-> "Cast",
                       from_module |-> from.module, from |-> from.item,
                       module |-> to.module, value |-> to.item \o st.rest]
             ELSE Unknown
    ELSE LET sp == split_module(value)
         IN  [kind |-> "Entry", module |-> sp.module, value |-> sp.item]

\* the value ProcessingEntry::new computes from the symbol's optional name
new_value(name) ==
    IF IsSome(name) THEN acquire_value(strip_hash(Unwrap(name))) ELSE Unknown

(***************************************************************************)
(* default/entry.rs: HowlerEntry::process_item                             *)
(***************************************************************************)
\* one iteration of the loop over name.chars(): v is the bracket depth,
\* done is set by the ">" that closes the first "<"
cast_step(st, ch) ==
    IF st.done THEN [st EXCEPT !.right = Append(st.right, ch)]
    ELSE IF ch = "<"
         THEN IF st.v = 0
              THEN [st EXCEPT !.v = st.v + 1]
              ELSE [st EXCEPT !.v = st.v + 1, !.cast = Append(st.cast, ch)]
         ELSE IF ch = ">"
              THEN IF st.v - 1 = 0
                   THEN [st EXCEPT !.v = st.v - 1, !.done = TRUE]
                   ELSE [st EXCEPT !.v = st.v - 1, !.cast = Append(st.cast, ch)]
              ELSE [st EXCEPT !.cast = Append(st.cast, ch)]

RECURSIVE cast_loop(_, _)
cast_loop(st, s) ==
    IF Len(s) = 0 THEN st ELSE cast_loop(cast_step(st, Head(s)), Tail(s))

\* str::rsplit("::").next(): the text after the last "::", or all of it
rsplit_next(s, p) ==
    LET sp == rsplit_once(s, p) IN IF IsSome(sp) THEN Unwrap(sp).right ELSE s

\* HowlerEntry::process_item: the pair (module, value), or the panic
\* "where tf is as"
process_item(name) ==
    IF ~IsSome(name) THEN [module |-> None, value |-> None, panicked |-> FALSE]
    ELSE IF starts_with(Unwrap(name), <<"<">>)
    THEN LET st == cast_loop([v |-> 0, done |-> FALSE, cast |-> <<>>, right |-> <<>>],
                             Unwrap(name))
             sp == split_once(st.cast, As)
         IN  IF IsSome(sp)
             THEN LET original == split_once(Unwrap(sp).left, ColonColon)
                  IN  IF IsSome(original)
                      THEN [module |-> Some(Unwrap(original).left),
                            value |-> Some(Unwrap(original).right \o <<" ", "-", ">", " ">>
                                           \o rsplit_next(Unwrap(sp).right, ColonColon)
                                           \o st.right),
                            panicked |-> FALSE]
                      ELSE [module |-> None, value |-> name, panicked |-> FALSE]
             ELSE [module |-> None, value |-> None, panicked |-> TRUE]
    ELSE LET sp == split_once(Unwrap(name), ColonColon)
         IN  IF IsSome(sp)
             THEN [module |-> Some(Unwrap(sp).left), value |-> Some(Unwrap(sp).right),
                   panicked |-> FALSE]
             ELSE [module |-> None, value |-> name, panicked |-> FALSE]

(***************************************************************************)
(* owo_colors: a style wraps the text in an SGR prefix and suffix.         *)
(***************************************************************************)
sgr(code) == <<"ESC", "[">> \o code \o <<"m">>
red(t) == sgr(<<"3", "1">>) \o t \o sgr(<<"3", "9">>)
blue(t) == sgr(<<"3", "4">>) \o t \o sgr(<<"3", "9">>)
purple(t) == sgr(<<"3", "5">>) \o t \o sgr(<<"3", "9">>)
white(t) == sgr(<<"3", "7">>) \o t \o sgr(<<"3", "9">>)
bold(t) == sgr(<<"1">>) \o t \o sgr(<<"2", "2">>)
\* Style::style: no codes for the plain style
style(t, st) == IF st = "plain" THEN t ELSE sgr(<<"3", "6">>) \o t \o sgr(<<"0">>)

\* the decimal digits of a number: u32::to_string, and {i} in format!
RECURSIVE to_string(_)
to_string(n) ==
    LET d == <<"0", "1", "2", "3", "4", "5", "6", "7", "8", "9">>[(n % 10) + 1]
    IN  IF n < 10 THEN <<d>> ELSE Append(to_string(n \div 10), d)

\* processor.rs: UNKNOWN
UNKNOWN == <<"?", "?", "?">>

(***************************************************************************)
(* processor/entry.rs: ProcessingValue                                     *)
(***************************************************************************)
\* ProcessingValue::get_module
get_module(v) == IF v.kind = "Unknown" THEN None ELSE v.module

\* ProcessingValue::matches
matches(v, matcher) ==
    IF v.kind = "Unknown" THEN FALSE
    ELSE CASE matcher.kind = "Value" -> v.value = matcher.pat
           [] matcher.kind = "Module" -> IsSome(v.module) /\ Unwrap(v.module) = matcher.pat
           [] matcher.kind = "Item" -> starts_with(v.value, matcher.pat)
           [] matcher.kind = "Path" ->
                  LET segs == split(v.value, ColonColon)
                  IN  \E i \in 1..Len(segs) : segs[i] = matcher.pat

\* Option<String>::map(|m| m.replace(from, to)) on a module field
replace_module(module, from, to) ==
    IF IsSome(module) THEN Some(replace_all(Unwrap(module), from, to)) ELSE None

\* value.split("::").map(|v| v.replace(from, to)).collect().join("::")
replace_segments(value, from, to) ==
    LET segs == split(value, ColonColon)
    IN  join([i \in 1..Len(segs) |-> replace_all(segs[i], from, to)], ColonColon)

\* if value.starts_with(pat) { value.replacen(pat, to, 1) }
replace_prefix(value, pat, to) ==
    IF starts_with(value, pat) THEN replacen1(value, pat, to) ELSE value

\* ProcessingValue::replace
replace(v, matcher, to) ==
    IF v.kind = "Unknown" THEN v
    ELSE CASE matcher.kind = "Value" ->
                  [v EXCEPT !.value = replace_all(v.value, matcher.pat, to)]
           [] matcher.kind = "Module" ->
                  IF v.kind = "Entry"
                  THEN [v EXCEPT !.module = replace_module(v.module, matcher.pat, to)]
                  ELSE [v EXCEPT !.from_module = replace_module(v.from_module, matcher.pat, to),
                                 !.module = replace_module(v.module, matcher.pat, to)]
           [] matcher.kind = "Item" ->
                  IF v.kind = "Entry"
                  THEN [v EXCEPT !.value = replace_prefix(v.value, matcher.pat, to)]
                  ELSE [v EXCEPT !.value = replace_prefix(v.value, matcher.pat, to),
                                 !.from = replace_prefix(v.from, matcher.pat, to)]
           [] matcher.kind = "Path" ->
                  [v EXCEPT !.value = replace_segments(v.value, matcher.pat, to)]

(***************************************************************************)
(* processor.rs: ErrorLocationKey and the Errors lookup                    *)
(***************************************************************************)
\* From<&BacktraceSymbol> for ErrorLocationKey
location_key(sym) == [name |-> sym.name, filename |-> sym.filename]

\* Errors is a map from key to the list of cause indices, kept here as a
\* sequence of [key, ids] with one element per key
errors_get(errors, key) ==
    IF \E k \in 1..Len(errors) : errors[k].key = key
    THEN Some(errors[CHOOSE k \in 1..Len(errors) : errors[k].key = key].ids)
    ELSE None

\* the closure handed to resolve_frame: insert the key if absent, push i
errors_push(errors, key, i) ==
    IF \E k \in 1..Len(errors) : errors[k].key = key
    THEN [k \in 1..Len(errors) |->
             IF errors[k].key = key
             THEN [errors[k] EXCEPT !.ids = Append(errors[k].ids, i)]
             ELSE errors[k]]
    ELSE Append(errors, [key |-> key, ids |-> <<i>>])

\* resolve_frame: the closure runs once per symbol of the frame
RECURSIVE resolve_into(_, _, _)
resolve_into(errors, syms, i) ==
    IF Len(syms) = 0 THEN errors
    ELSE resolve_into(errors_push(errors, location_key(Head(syms)), i), Tail(syms), i)

(***************************************************************************)
(* processor/entry.rs: ProcessingEntry                                     *)
(***************************************************************************)
\* the " "-joined labels of the cause indices
error_labels(ids) == join([k \in 1..Len(ids) |-> red(<<"E">> \o to_string(ids[k]))], <<" ">>)

\* ProcessingEntry::new
ProcessingEntry_new(sym, errors) ==
    LET found == errors_get(errors, location_key(sym))
    IN  [line |-> sym.lineno,
         character |-> sym.colno,
         value |-> new_value(sym.name),
         errors |-> IF IsSome(found) THEN Some(error_labels(Unwrap(found))) ELSE None,
         collapsable |-> FALSE]

\* ProcessingEntry::get_location
get_location(e) ==
    blue((IF IsSome(e.line) THEN to_string(Unwrap(e.line)) ELSE UNKNOWN)
         \o <<":">>
         \o (IF IsSome(e.character) THEN to_string(Unwrap(e.character)) ELSE UNKNOWN))

\* build with the labels of the causes in the suffix field
build_labels_in_suffix(e) ==
    [prefix |-> None,
     prefix_left |-> Some(get_location(e)),
     separator |-> "|",
     prefix_right |-> IF IsSome(get_module(e.value))
                      THEN Some(purple(Unwrap(get_module(e.value)))) ELSE None,
     text |-> CASE e.value.kind = "Entry" -> e.value.value
                [] e.value.kind = "Cast" ->
                       e.value.from \o <<" ">> \o white(<<"-", ">">>) \o <<" ">> \o e.value.value
                [] e.value.kind = "Unknown" -> UNKNOWN,
     suffix |-> e.errors]

\* ProcessingEntry::build
build(e) ==
    [prefix |-> e.errors,
     prefix_left |-> Some(get_location(e)),
     separator |-> "|",
     prefix_right |-> IF IsSome(get_module(e.value))
                      THEN Some(purple(Unwrap(get_module(e.value)))) ELSE None,
     text |-> CASE e.value.kind = "Entry" -> e.value.value
                [] e.value.kind = "Cast" ->
                       e.value.from \o <<" ">> \o white(<<"-", ">">>) \o <<" ">> \o e.value.value
                [] e.value.kind = "Unknown" -> UNKNOWN,
     suffix |-> None]

\* audit.rs: AuditSectionEntry::empty and AuditSectionEntry::text
AuditSectionEntry_text(t) ==
    [prefix |-> None, prefix_left |-> None, separator |-> "|",
     prefix_right |-> None, text |-> t, suffix |-> None]

AuditSectionEntry_empty == AuditSectionEntry_text(<<>>)

(***************************************************************************)
(* processor/file.rs: ReporterFile.  A path is its sequence of components, *)
(* the root directory being the component "/".                             *)
(***************************************************************************)
RootDir == <<"/">>
Rustc == <<"r", "u", "s", "t", "c">>
Library == <<"l", "i", "b", "r", "a", "r", "y">>

\* Path::strip_prefix(current_dir), kept when it fails
shorten_current_dir(path, current_dir) ==
    IF IsSome(current_dir) /\ starts_with(path, Unwrap(current_dir))
    THEN Drop(path, Len(Unwrap(current_dir)))
    ELSE path

\* /rustc/<hash>/library/<rest> becomes <rest>
remove_library_prefix(path) ==
    IF /\ Len(path) >= 4
       /\ path[1] = RootDir
       /\ path[2] = Rustc
       /\ path[4] = Library
    THEN Drop(path, 4)
    ELSE path

\* ReporterFile::new
ReporterFile_new(path, entries, proc) ==
    LET p1 == IF IsSome(path) /\ proc.file_shorten_current_dir
              THEN Some(shorten_current_dir(Unwrap(path), proc.current_dir))
              ELSE path
        p2 == IF IsSome(p1) /\ proc.file_remove_library_prefix
              THEN Some(remove_library_prefix(Unwrap(p1)))
              ELSE p1
    IN  [path |-> p2, entries |-> entries]

\* Path::to_str
path_to_str(path) ==
    IF Len(path) > 0 /\ path[1] = RootDir
    THEN RootDir \o join(Tail(path), <<"/">>)
    ELSE join(path, <<"/">>)

(***************************************************************************)
(* processor.rs: AnywaysAuditProcessor                                     *)
(***************************************************************************)
\* one iteration of the loop over the symbols in read_backtrace
read_backtrace_step(st, sym, errors, proc) ==
    LET location == location_key(sym)
        flushed == IF st.old_path # location.filename
                   THEN [files |-> Append(st.files,
                                          ReporterFile_new(st.old_path, st.entries, proc)),
                         entries |-> <<>>,
                         old_path |-> location.filename]
                   ELSE st
    IN  [flushed EXCEPT !.entries = Append(@, ProcessingEntry_new(sym, errors))]

RECURSIVE read_backtrace_loop(_, _, _, _)
read_backtrace_loop(st, syms, errors, proc) ==
    IF Len(syms) = 0 THEN st
    ELSE read_backtrace_loop(read_backtrace_step(st, Head(syms), errors, proc),
                             Tail(syms), errors, proc)

\* AnywaysAuditProcessor::read_backtrace: the files pushed when the loop ends
read_backtrace(a, errors, proc) ==
    read_backtrace_loop([files |-> <<>>, entries |-> <<>>, old_path |-> None],
                        a.backtrace, errors, proc).files

\* for (matcher, to) in &self.replace { entry.value.replace(matcher, styled to) }
RECURSIVE replace_each(_, _, _)
replace_each(v, pairs, st) ==
    IF Len(pairs) = 0 THEN v
    ELSE replace_each(replace(v, Head(pairs).matcher, style(Head(pairs).to, st)),
                      Tail(pairs), st)

\* the body of the 'entry loop for an entry no filter matches
declutter(e, proc) ==
    [e EXCEPT !.collapsable = (\E m \in proc.collapse : matches(e.value, m)),
              !.value = replace_each(e.value, proc.replace, proc.replace_style)]

\* the 'entry loop: the entries of one file that survive the filter
RECURSIVE filter_entries(_, _)
filter_entries(es, proc) ==
    IF Len(es) = 0 THEN <<>>
    ELSE IF \E m \in proc.filter : matches(Head(es).value, m)
         THEN filter_entries(Tail(es), proc)
         ELSE <<declutter(Head(es), proc)>> \o filter_entries(Tail(es), proc)

\* the 'entry loop body, step by step: the filter check,
\* for matcher in &self.filter { if entry.value.matches(matcher) { continue 'entry } }
filter_matches(e, proc) == \E matcher \in proc.filter : matches(e.value, matcher)

\* a collapse marking that looks at the text the replace pairs produce
mark_collapsable_after_replace(e, proc) ==
    [e EXCEPT !.collapsable =
        \E matcher \in proc.collapse :
            matches(replace_each(e.value, proc.replace, proc.replace_style), matcher)]

\* the collapse marking,
\* for matcher in &self.collapse { if entry.value.matches(matcher) { collapsable = true; break } }
mark_collapsable(e, proc) ==
    [e EXCEPT !.collapsable = \E matcher \in proc.collapse : matches(e.value, matcher)]

\* and one iteration of the replace loop,
\* entry.value.replace(matcher, &(to.style(self.replace_style).to_string()))
replace_pair(e, pair, proc) ==
    [e EXCEPT !.value = replace(e.value, pair.matcher, style(pair.to, proc.replace_style))]

\* a merge that does not skip the file left without entries
group_step_keeps_empty(files, file, proc) ==
    LET entries == filter_entries(file.entries, proc)
        n == Len(files)
    IN  IF /\ n > 0
           /\ \/ files[n].path = file.path
              \/ \A i \in 1..Len(entries) : entries[i].collapsable
        THEN [files EXCEPT ![n].entries = @ \o entries]
        ELSE Append(files, [file EXCEPT !.entries = entries])

\* a merge that looks at the collapsable flags only, never at the path
group_step_collapsable_only(files, file, proc) ==
    LET entries == filter_entries(file.entries, proc)
        n == Len(files)
    IN  IF Len(entries) = 0 THEN files
        ELSE IF n > 0 /\ \A i \in 1..Len(entries) : entries[i].collapsable
             THEN [files EXCEPT ![n].entries = @ \o entries]
             ELSE Append(files, [file EXCEPT !.entries = entries])

\* one iteration of the loop over the files of read_backtrace
group_step(files, file, proc) ==
    LET entries == filter_entries(file.entries, proc)
        n == Len(files)
    IN  IF Len(entries) = 0 THEN files
        ELSE IF /\ n > 0
                /\ \/ files[n].path = file.path
                   \/ \A i \in 1..Len(entries) : entries[i].collapsable
             THEN [files EXCEPT ![n].entries = @ \o entries]
             ELSE Append(files, [file EXCEPT !.entries = entries])

RECURSIVE group_loop(_, _, _)
group_loop(files, rest, proc) ==
    IF Len(rest) = 0 THEN files
    ELSE group_loop(group_step(files, Head(rest), proc), Tail(rest), proc)

\* the kept files of create_backtrace_section
kept_files(a, errors, proc) == group_loop(<<>>, read_backtrace(a, errors, proc), proc)

\* the header, the frame entries and the spacer of one kept file
file_entries(file) ==
    <<AuditSectionEntry_text(IF IsSome(file.path)
                             THEN bold(white(path_to_str(Unwrap(file.path))))
                             ELSE UNKNOWN)>>
    \o [i \in 1..Len(file.entries) |-> build(file.entries[i])]
    \o <<AuditSectionEntry_empty>>

RECURSIVE emit_files(_)
emit_files(files) ==
    IF Len(files) = 0 THEN <<>> ELSE file_entries(Head(files)) \o emit_files(Tail(files))

\* a section that keeps the spacer of its last file
pop_nothing(v) == v

\* Vec::pop, the popped element discarded
pop(v) == IF Len(v) = 0 THEN v ELSE Take(v, Len(v) - 1)

Backtrace == <<"B", "a", "c", "k", "t", "r", "a", "c", "e">>
Errors == <<"E", "r", "r", "o", "r", "s">>

\* AnywaysAuditProcessor::create_backtrace_section
create_backtrace_section(a, errors, proc) ==
    [name |-> Backtrace,
     color |-> "Yellow",
     entries |-> pop(emit_files(kept_files(a, errors, proc)))]

\* the errors lookup create_error_section builds, cause by cause (i from 0)
RECURSIVE error_locations(_, _, _)
error_locations(errors, errs, i) ==
    IF i >= Len(errs) THEN errors
    ELSE error_locations(
             IF IsSome(errs[i + 1].location)
             THEN resolve_into(errors, Unwrap(errs[i + 1].location), i)
             ELSE errors,
             errs, i + 1)

\* the section entry pushed for cause i (from 0) of len causes
error_entry(err, i, len) ==
    [prefix |-> None,
     prefix_left |-> Some(red(<<"E">> \o to_string(i))),
     separator |-> IF i # len - 1 THEN "DOWN" ELSE "RIGHT",
     prefix_right |-> None,
     text |-> err.error,
     suffix |-> None]

\* AnywaysAuditProcessor::create_error_section
create_error_section(a) ==
    [section |-> [name |-> Errors,
                  color |-> "Red",
                  entries |-> [k \in 1..Len(a.errors) |->
                                  error_entry(a.errors[k], k - 1, Len(a.errors))]],
     errors |-> error_locations(<<>>, a.errors, 0)]

\* a process that builds the Errors section before copying the custom ones
process_errors_first(a, proc) ==
    LET es == create_error_section(a)
    IN  <<es.section>>
        \o a.custom_sections
        \o <<create_backtrace_section(a, es.errors, proc)>>

\* AuditProcessor::process
process(a, proc) ==
    LET es == create_error_section(a)
    IN  a.custom_sections
        \o <<es.section>>
        \o <<create_backtrace_section(a, es.errors, proc)>>

(***************************************************************************)
(* align.rs: the alignment engine                                          *)
(***************************************************************************)
\* usize subtraction: the difference, or the flag "attempt to subtract with
\* overflow" (a panic in a debug build, a wrapped value in a release build;
\* the loop is stopped in either case)
usize_sub(a, b) ==
    [value |-> IF b > a THEN 0 ELSE a - b, underflow |-> b > a]

\* a clamp that returns the value as it is
clamp_none(x, lo, hi) == x

\* Ord::clamp(self, min, max)
clamp(x, lo, hi) == IF x < lo THEN lo ELSE IF x > hi THEN hi ELSE x

\* char::len_utf8 of the pad character
len_utf8(ch) == IF ch = "BOX" THEN 3 ELSE 1

\* char::to_string().repeat(n)
repeat(ch, n) == [k \in 1..n |-> ch]

\* a correction that lowers the debt and leaves the padding as it was
pay_debt_keeps_padding(offset, room) ==
    LET offset_amount == clamp(offset, 0, room)
        o == usize_sub(offset, offset_amount)
    IN  [offset |-> o.value, padding_size |-> room, underflow |-> o.underflow]

\* "try to correct the offset": the debt and the padding both go down by
\* offset.clamp(0, padding_size)
pay_debt(offset, room) ==
    LET offset_amount == clamp(offset, 0, room)
        o == usize_sub(offset, offset_amount)
        p == usize_sub(room, offset_amount)
    IN  [offset |-> o.value, padding_size |-> p.value,
         underflow |-> o.underflow \/ p.underflow]

\* the loop state of align before the first entry
align_init ==
    [offset |-> 0, line |-> <<>>, padding_size |-> 0, underflow |-> FALSE,
     panicked |-> FALSE]

\* one iteration of the loop over the entries
align_step(st, e, pad_char) ==
    LET len == get_length(e.text)
    IN  IF st.panicked THEN st
        ELSE IF len > e.width
        THEN LET over == usize_sub(len, e.width)
             IN  [st EXCEPT !.offset = st.offset + over.value,
                            !.line = st.line \o e.text,
                            !.padding_size = 0,
                            !.underflow = over.underflow,
                            !.panicked = over.underflow]
        ELSE LET room == usize_sub(e.width, len)
                 paid == pay_debt(st.offset, room.value)
                 padding == repeat(pad_char, paid.padding_size)
                 \* padding.len() / 2, in bytes
                 mid == (paid.padding_size * len_utf8(pad_char)) \div 2
                 left == Take(padding, mid \div len_utf8(pad_char))
                 right == Drop(padding, mid \div len_utf8(pad_char))
                 flags == room.underflow \/ paid.underflow
                 next == [st EXCEPT !.offset = paid.offset,
                                    !.padding_size = paid.padding_size,
                                    !.underflow = flags,
                                    !.panicked = flags]
             IN  IF flags THEN next
                 ELSE
                 CASE e.alignment = "Left" ->
                          [next EXCEPT !.line = st.line \o e.text \o padding]
                   [] e.alignment = "Right" ->
                          [next EXCEPT !.line = st.line \o padding \o e.text]
                   [] e.alignment = "Center" ->
                          \* str::split_at panics off a character boundary
                          IF mid % len_utf8(pad_char) # 0
                          THEN [next EXCEPT !.panicked = TRUE]
                          ELSE [next EXCEPT !.line = st.line \o left \o e.text \o right]

RECURSIVE align_loop(_, _, _)
align_loop(st, entries, pad_char) ==
    IF Len(entries) = 0 THEN st
    ELSE align_loop(align_step(st, Head(entries), pad_char), Tail(entries), pad_char)

\* the loop state after each entry, in order
align_states(c) ==
    [i \in 1..Len(c.entries) |-> align_loop(align_init, Take(c.entries, i), c.pad_char)]

\* func(s): the sink is handed s; its fail_on-th call returns Err
sink(w, s, fail_on) ==
    IF w.result # "Ok" THEN w
    ELSE [w EXCEPT !.chunks = Append(w.chunks, s),
                   !.result = IF Len(w.chunks) + 1 = fail_on THEN "Err" ELSE "Ok"]

\* a wrap step that measures the chunk by its characters, escapes included
wrap_step_counts_escapes(w, ch, max_width, fail_on) ==
    IF w.result # "Ok" THEN w
    ELSE LET line_builder == Append(w.line_builder, ch)
         IN  IF Len(line_builder) >= max_width
             THEN [sink(w, line_builder, fail_on) EXCEPT !.line_builder = <<>>]
             ELSE [w EXCEPT !.line_builder = line_builder]

\* a wrap step that flushes once the chunk is longer than max_width
wrap_step_late(w, ch, max_width, fail_on) ==
    IF w.result # "Ok" THEN w
    ELSE LET line_builder == Append(w.line_builder, ch)
         IN  IF get_length(line_builder) > max_width
             THEN [sink(w, line_builder, fail_on) EXCEPT !.line_builder = <<>>]
             ELSE [w EXCEPT !.line_builder = line_builder]

\* one iteration of the loop over line.chars() of the hard wrap
wrap_step(w, ch, max_width, fail_on) ==
    IF w.result # "Ok" THEN w
    ELSE LET line_builder == Append(w.line_builder, ch)
         IN  IF get_length(line_builder) >= max_width
             THEN [sink(w, line_builder, fail_on) EXCEPT !.line_builder = <<>>]
             ELSE [w EXCEPT !.line_builder = line_builder]

RECURSIVE wrap_loop(_, _, _, _)
wrap_loop(w, s, max_width, fail_on) ==
    IF Len(s) = 0 THEN w
    ELSE wrap_loop(wrap_step(w, Head(s), max_width, fail_on), Tail(s), max_width, fail_on)

\* a second half that forgets the characters left after the last full chunk
flush_drops_rest(line, max_width, fail_on) ==
    LET w0 == [line_builder |-> <<>>, chunks |-> <<>>, result |-> "Ok"]
    IN  IF get_length(line) > max_width
        THEN wrap_loop(w0, line, max_width, fail_on)
        ELSE sink(w0, line, fail_on)

\* the second half of align: the line goes to the sink, wrapped if too long
flush(line, max_width, fail_on) ==
    LET w0 == [line_builder |-> <<>>, chunks |-> <<>>, result |-> "Ok"]
    IN  IF get_length(line) > max_width
        THEN LET w == wrap_loop(w0, line, max_width, fail_on)
             IN  IF w.result = "Ok" /\ Len(w.line_builder) # 0
                 THEN sink(w, w.line_builder, fail_on)
                 ELSE w
        ELSE sink(w0, line, fail_on)

\* align: the line built, the strings handed to the sink, and the result
align(c) ==
    LET st == align_loop(align_init, c.entries, c.pad_char)
    IN  IF st.panicked
        THEN [line |-> None, chunks |-> <<>>, result |-> "panic",
              wrapped |-> FALSE, offset |-> st.offset, underflow |-> st.underflow]
        ELSE LET w == flush(st.line, c.max_width, c.fail_on)
             IN  [line |-> Some(st.line), chunks |-> w.chunks, result |-> w.result,
                  wrapped |-> get_length(st.line) > c.max_width,
                  offset |-> st.offset, underflow |-> st.underflow]

(***************************************************************************)
(* formatter.rs: AnywaysAuditFormatter.  The box glyphs are the characters *)
(* "TL", "TR", "BL", "BR" (corners), "BOX" (horizontal) and "V" (vertical).*)
(* The output is the sequence of lines written, one writeln! each; the     *)
(* result is "Ok", "Err" (a write failed) or "panic".                      *)
(***************************************************************************)
\* the foreground code of a DynColors::Ansi colour
color_code(c) ==
    CASE c = "Red" -> <<"3", "1">>
      [] c = "Yellow" -> <<"3", "3">>
      [] c = "Magenta" -> <<"3", "5">>
      [] c = "BrightBlue" -> <<"9", "4">>

\* OwoColorize::color
color(t, c) == sgr(color_code(c)) \o t \o sgr(<<"3", "9">>)

\* str::repeat
RECURSIVE repeat_str(_, _)
repeat_str(value, n) == IF n <= 0 THEN <<>> ELSE value \o repeat_str(value, n - 1)

\* create_pad: length.saturating_sub(get_length(text)) copies of value
create_pad(value, t, n) ==
    repeat_str(value, IF n > get_length(t) THEN n - get_length(t) ELSE 0)

\* a - b1 - b2 - ... in usize, left to right
RECURSIVE usize_sub_all(_, _)
usize_sub_all(a, bs) ==
    IF Len(bs) = 0 THEN [value |-> a, underflow |-> FALSE]
    ELSE LET d == usize_sub(a, Head(bs))
         IN  IF d.underflow THEN d ELSE usize_sub_all(d.value, Tail(bs))

\* the output before the first write
no_output == [lines |-> <<>>, result |-> "Ok"]

\* writeln!(f, ...): the fail_on-th write returns Err and writes nothing
writeln(w, line, env) ==
    IF w.result # "Ok" THEN w
    ELSE IF Len(w.lines) + 1 = env.fail_on THEN [w EXCEPT !.result = "Err"]
    ELSE [w EXCEPT !.lines = Append(w.lines, line)]

\* a panic: "attempt to subtract with overflow", or "capacity overflow" when
\* a wrapped length reaches str::repeat
panic(w) == IF w.result # "Ok" THEN w ELSE [w EXCEPT !.result = "panic"]

\* AnywaysAuditFormatter::write_section_header
write_section_header(w, fm, name, c, env) ==
    IF fm.simple_section
    THEN writeln(w, color(<<"=", "=", ">", " ">>, c) \o bold(name), env)
    ELSE LET pad_length == usize_sub(fm.width, 6)
         IN  IF pad_length.underflow THEN panic(w)
             ELSE writeln(w, color(<<"TL", "BOX", "BOX", " ">>, c) \o bold(name) \o <<" ">>
                             \o create_pad(color(<<"BOX">>, c), name, pad_length.value)
                             \o color(<<"TR">>, c), env)

\* AnywaysAuditFormatter::write_section_line
write_section_line(w, fm, t, suffix, prefix, c, env) ==
    LET sfx == IF IsSome(suffix) THEN Unwrap(suffix) ELSE <<>>
        pfx == IF IsSome(prefix) THEN Unwrap(prefix) ELSE <<>>
        ls == color(IF fm.simple_section THEN <<>> ELSE <<"V">>, c)
    IN  IF ~fm.simple_section
        THEN LET pad == repeat_str(<<" ">>, fm.side_padding)
                 prefix_pad == create_pad(<<" ">>, pfx, 3)
                 pad_length == usize_sub_all(fm.width,
                               <<get_length(ls), get_length(ls), get_length(prefix_pad),
                                 get_length(sfx), get_length(pfx), fm.side_padding * 2>>)
             IN  IF pad_length.underflow THEN panic(w)
                 ELSE writeln(w, ls \o pad \o pfx \o prefix_pad \o t
                                 \o create_pad(<<" ">>, t, pad_length.value)
                                 \o sfx \o pad \o ls, env)
        ELSE writeln(w, create_pad(<<" ">>, sfx, 4) \o sfx \o t, env)

\* AnywaysAuditFormatter::write_section_footer
write_section_footer(w, fm, c, env) ==
    IF ~fm.simple_section
    THEN LET pad_length == usize_sub(fm.width, 2)
         IN  IF pad_length.underflow THEN panic(w)
             ELSE writeln(w, color(<<"BL">>, c) \o repeat_str(color(<<"BOX">>, c), pad_length.value)
                             \o color(<<"BR">>, c), env)
    ELSE writeln(w, <<>>, env)

\* one iteration of the loop over text.chars() in write_section_entry.  The
\* loops stop at the first write that fails (the ? operator); each step is
\* a value (the one element of a set) before the loop goes on with it.
entry_wrap_step(st, ch, fm, content_width, c, env) ==
    IF st.w.result # "Ok" THEN st
    ELSE LET line == Append(st.line, ch)
             len == (IF IsSome(st.suffix) THEN get_length(Unwrap(st.suffix)) ELSE 0)
                    + get_length(line)
         IN  IF len = content_width
             THEN [w |-> write_section_line(st.w, fm, line, st.suffix, st.prefix, c, env),
                   line |-> <<>>, suffix |-> None, prefix |-> None]
             ELSE [st EXCEPT !.line = line]

\* the loop over text.chars() from the lo-th to the hi-th character, in
\* order: the first half of the range, then the second half from its state
RECURSIVE entry_wrap_loop(_, _, _, _, _, _, _, _)
entry_wrap_loop(st, t, lo, hi, fm, content_width, c, env) ==
    IF lo > hi THEN st
    ELSE IF lo = hi THEN entry_wrap_step(st, t[lo], fm, content_width, c, env)
    ELSE CHOOSE done \in
             {entry_wrap_loop(half, t, (lo + hi) \div 2 + 1, hi, fm, content_width, c, env) :
                 half \in {entry_wrap_loop(st, t, lo, (lo + hi) \div 2, fm,
                                           content_width, c, env)}} : TRUE

\* the text of an entry: the padded prefix_left, the separator (a "+" when
\* the entry has a prefix or a suffix), the padded prefix_right, the text
entry_text(e, c) ==
    (IF IsSome(e.prefix_left)
     THEN create_pad(<<" ">>, Unwrap(e.prefix_left), 8) \o Unwrap(e.prefix_left)
     ELSE <<>>)
    \o (IF IsSome(e.prefix_left) \/ IsSome(e.prefix_right)
        THEN <<" ">>
             \o (IF IsSome(e.suffix) \/ IsSome(e.prefix)
                 THEN bold(color(<<"+">>, c))
                 ELSE white(<<e.separator>>))
             \o <<" ">>
        ELSE <<>>)
    \o (IF IsSome(e.prefix_right)
        THEN Unwrap(e.prefix_right) \o create_pad(<<" ">>, Unwrap(e.prefix_right), 10)
        ELSE <<>>)
    \o e.text

\* the lines of an entry whose text is t: one line when the text fits in
\* content_width, else the wrap loop and the rest of the text.  Without
\* overflow checks a content_width that underflows wraps to a value no text
\* is longer than.
write_entry_lines(w, fm, e, t, c, env) ==
    LET content_width == usize_sub_all(fm.width, <<fm.side_padding * 2, 2>>)
    IN  IF w.result # "Ok" THEN w
        ELSE IF content_width.underflow /\ env.overflow_checks THEN panic(w)
        ELSE IF ~content_width.underflow /\ get_length(t) > content_width.value
        THEN LET st == entry_wrap_loop([w |-> w, line |-> <<>>, suffix |-> e.suffix,
                                        prefix |-> e.prefix],
                                       t, 1, Len(t), fm, content_width.value, c, env)
             IN  IF st.w.result = "Ok" /\ Len(st.line) # 0
                 THEN write_section_line(st.w, fm, st.line, st.suffix, st.prefix, c, env)
                 ELSE st.w
        ELSE write_section_line(w, fm, t, e.suffix, e.prefix, c, env)

\* AnywaysAuditFormatter::write_section_entry
write_section_entry(w, fm, e, c, env) ==
    CHOOSE done \in
        {write_entry_lines(w, fm, e, t, c, env) : t \in {entry_text(e, c)}} : TRUE

RECURSIVE write_entries(_, _, _, _, _)
write_entries(w, fm, entries, c, env) ==
    IF Len(entries) = 0 \/ w.result # "Ok" THEN w
    ELSE CHOOSE done \in
             {write_entries(next, fm, Tail(entries), c, env) :
                 next \in {write_section_entry(w, fm, Head(entries), c, env)}} : TRUE

\* the body of the loop over the sections in format
write_section(w, fm, section, env) ==
    CHOOSE done \in
        {write_section_footer(body, fm, section.color, env) :
            body \in {write_entries(head, fm, section.entries, section.color, env) :
                        head \in {write_section_header(w, fm, section.name,
                                                       section.color, env)}}} : TRUE

RECURSIVE write_sections(_, _, _, _)
write_sections(w, fm, secs, env) ==
    IF Len(secs) = 0 \/ w.result # "Ok" THEN w
    ELSE CHOOSE done \in
             {write_sections(next, fm, Tail(secs), env) :
                 next \in {write_section(w, fm, Head(secs), env)}} : TRUE

\* AnywaysAuditFormatter::format
format(fm, secs, env) == write_sections(no_output, fm, secs, env)

(***************************************************************************)
(* The inputs the model draws from.                                        *)
(***************************************************************************)
\* all sequences of at most n elements of S
SeqsUpTo(S, n) == UNION {[1..k -> S] : k \in 0..n}

\* raw symbol names: "a::f::h1" and "<T as c::F>::g::h2"
NameA == <<"a", ":", ":", "f", ":", ":", "h", "1">>
NameB == <<"<", "T", " ", "a", "s", " ", "c", ":", ":", "F", ">", ":", ":", "g", ":", ":", "h", "2">>

\* source files: two copies of a library file and a file under the current dir
FileLib1 == <<RootDir, Rustc, <<"1">>, Library, <<"x">>>>
FileLib2 == <<RootDir, Rustc, <<"2">>, Library, <<"x">>>>
FileApp == <<RootDir, <<"w">>, <<"m">>>>
CurrentDir == <<RootDir, <<"w">>>>

\* the symbols a resolved capture is made of (no line or column known)
SymbolKinds ==
    {[name |-> n, filename |-> f, lineno |-> None, colno |-> None] :
        n \in {None, Some(NameA), Some(NameB)},
        f \in {None, Some(FileLib1), Some(FileLib2), Some(FileApp)}}

SymA == [name |-> Some(NameA), filename |-> Some(FileApp), lineno |-> Some(12), colno |-> Some(5)]
SymB == [name |-> Some(NameB), filename |-> Some(FileLib1), lineno |-> Some(7), colno |-> None]
SymU == [name |-> None, filename |-> None, lineno |-> None, colno |-> None]

\* resolved captures for the audits of Spec
SampleBacktraces ==
    {<<SymA, SymB, SymU>>, <<SymB, SymA, SymA, SymU>>, <<SymU, SymB, SymA>>}

\* the symbols of the longer captures: three names in two files
GroupSymbols ==
    {[name |-> n, filename |-> f, lineno |-> None, colno |-> None] :
        n \in {None, Some(NameA), Some(NameB)},
        f \in {Some(FileLib1), Some(FileApp)}}

\* processor configurations (every field of AnywaysAuditProcessor is public)
\* together with the current directory the process runs in
Matcher(k, p) == [kind |-> k, pat |-> p]

Configs ==
    {[filter |-> {}, collapse |-> {}, replace |-> <<>>, replace_style |-> "plain",
      file_remove_library_prefix |-> FALSE, file_shorten_current_dir |-> FALSE,
      current_dir |-> Some(CurrentDir)],
     [filter |-> {Matcher("Value", <<"f">>)},
      collapse |-> {Matcher("Item", <<"F">>)},
      replace |-> <<[matcher |-> Matcher("Path", <<"g">>), to |-> <<"G">>]>>,
      replace_style |-> "cyan",
      file_remove_library_prefix |-> TRUE, file_shorten_current_dir |-> TRUE,
      current_dir |-> Some(CurrentDir)],
     [filter |-> {Matcher("Module", <<"c">>)},
      collapse |-> {Matcher("Value", <<"f">>)},
      replace |-> <<[matcher |-> Matcher("Value", <<"f">>), to |-> <<"r">>],
                    [matcher |-> Matcher("Module", <<"a">>), to |-> <<"b">>]>>,
      replace_style |-> "plain",
      file_remove_library_prefix |-> TRUE, file_shorten_current_dir |-> TRUE,
      current_dir |-> None],
     [filter |-> {},
      collapse |-> {Matcher("Value", <<"f">>), Matcher("Path", <<"g">>)},
      replace |-> <<[matcher |-> Matcher("Item", <<"F">>), to |-> <<"R">>]>>,
      replace_style |-> "cyan",
      file_remove_library_prefix |-> FALSE, file_shorten_current_dir |-> TRUE,
      current_dir |-> Some(CurrentDir)]}

\* the configurations that filter
FilteringConfigs == {proc \in Configs : proc.filter # {}}

\* the display texts of the causes: "file not found", "initialization failed"
FileNotFound == <<"f", "i", "l", "e", " ", "n", "o", "t", " ", "f", "o", "u", "n", "d">>
InitializationFailed == <<"i", "n", "i", "t", "i", "a", "l", "i", "z", "a", "t", "i", "o", "n", " ", "f", "a", "i", "l", "e", "d">>

\* the causes push_err is given: a display text and an optional capture
\* location, which resolves to the symbols of one frame (several when
\* functions were inlined, and then possibly symbols of one name and file)
ErrorInputs ==
    {[error |-> t, location |-> None] : t \in {FileNotFound, InitializationFailed}}
    \cup {[error |-> FileNotFound, location |-> Some(l)] :
             l \in {<<SymA>>, <<SymA, SymA>>, <<SymB, SymU>>}}

\* the custom sections push_section is given
Stage == [name |-> <<"S", "t", "a", "g", "e">>, color |-> "Magenta",
          entries |-> <<AuditSectionEntry_text(<<"b", "o", "o", "t">>)>>]
Notes == [name |-> <<"N", "o", "t", "e", "s">>, color |-> "BrightBlue", entries |-> <<>>]
SectionInputs == {Stage, Notes}

\* Audit::new_empty, the capture being what the stack was at that moment
new_empty(backtrace) ==
    [backtrace |-> backtrace, errors |-> <<>>, custom_sections |-> <<>>]

\* a push_err that appends the cause at the back
push_err_back(a, err) == [a EXCEPT !.errors = Append(a.errors, err)]

\* Audit::push_err: self.errors.insert(0, err)
push_err(a, err) == [a EXCEPT !.errors = <<err>> \o a.errors]

\* Audit::push_section: self.custom_sections.push(section)
push_section(a, section) ==
    [a EXCEPT !.custom_sections = Append(a.custom_sections, section)]

(***************************************************************************)
(* ext.rs: AuditExt, and util.rs: ReportExt.  A Result or an Option is a   *)
(* record [ty, ok, value]: ty its type, ok whether it is Ok or Some, value *)
(* the value held (the plain error, the Audit or the Report of an Err).    *)
(***************************************************************************)
ResultPlain == "Result<T, E>"
ResultAudit == "Result<T, Audit>"
ResultReport == "Result<T, Report>"
OptionT == "Option<T>"

Ok(ty, v) == [ty |-> ty, ok |-> TRUE, value |-> v]
Err(ty, e) == [ty |-> ty, ok |-> FALSE, value |-> e]

\* From<E> for AuditError
AuditError_from(err) == [error |-> err, location |-> None]

\* Audit::new
Audit_new(err, backtrace) == push_err(new_empty(backtrace), err)

\* the closures AuditExt hands to wrap, run on the audit
run_closure(func, a) ==
    CASE func.kind = "push_err" ->
             push_err(a, [AuditError_from(func.err) EXCEPT !.location = func.location])
      [] func.kind = "push_section" -> push_section(a, func.section)

\* a wrap that builds the audit of a plain error without that error
wrap_forgets_source(self, func, env) ==
    IF self.ok
    THEN [result |-> Ok(ResultAudit, self.value), ran |-> FALSE]
    ELSE CASE self.ty = ResultAudit ->
                  [result |-> Err(ResultAudit, run_closure(func, self.value)), ran |-> TRUE]
           [] OTHER ->
                  [result |-> Err(ResultAudit, run_closure(func, new_empty(env.backtrace))),
                   ran |-> TRUE]

\* AuditExt::wrap for Result<T, E>, Result<T, Audit> and Option<T>: the
\* Result returned, and whether func was run
wrap(self, func, env) ==
    IF self.ok
    THEN [result |-> Ok(ResultAudit, self.value), ran |-> FALSE]
    ELSE CASE self.ty = ResultPlain ->
                  LET error == [AuditError_from(self.value) EXCEPT !.location = env.caller2]
                  IN  [result |-> Err(ResultAudit,
                                      run_closure(func, Audit_new(error, env.backtrace))),
                       ran |-> TRUE]
           [] self.ty = ResultAudit ->
                  [result |-> Err(ResultAudit, run_closure(func, self.value)), ran |-> TRUE]
           [] self.ty = OptionT ->
                  [result |-> Err(ResultAudit, run_closure(func, new_empty(env.backtrace))),
                   ran |-> TRUE]

\* AuditExt::wrap_err and wrap_err_with: err.into(), or err().into(), is
\* evaluated inside the closure
wrap_err(self, err, env) ==
    wrap(self, [kind |-> "push_err", err |-> err, location |-> env.caller3], env)

wrap_err_with(self, err, env) ==
    wrap(self, [kind |-> "push_err", err |-> err, location |-> env.caller3], env)

\* AuditExt::wrap_section and wrap_section_with
wrap_section(self, section, env) ==
    wrap(self, [kind |-> "push_section", section |-> section], env)

\* lib.rs: Report::new and Report::push_err
Report_new(err, backtrace) == [backtrace |-> backtrace, sections |-> <<>>, errors |-> <<err>>]
Report_push_err(report, err) == [report EXCEPT !.errors = Append(@, err)]

\* ReportExt::wrap_err and wrap_err_with for Result<T, I> and Result<T, Report>
ReportExt_wrap_err(self, err, env) ==
    IF self.ok
    THEN [result |-> Ok(ResultReport, self.value), ran |-> FALSE]
    ELSE CASE self.ty = ResultPlain ->
                  [result |-> Err(ResultReport,
                                  Report_push_err(Report_new(self.value, env.backtrace), err)),
                   ran |-> TRUE]
           [] self.ty = ResultReport ->
                  [result |-> Err(ResultReport, Report_push_err(self.value, err)),
                   ran |-> TRUE]

\* the values, the plain errors and the receivers of the wrap methods
OkValues == {<<"v", "1">>, <<"v", "2">>}
CauseTexts == {FileNotFound, InitializationFailed}
Receivers ==
    {Ok(ResultPlain, v) : v \in OkValues}
    \cup {Err(ResultPlain, e) : e \in CauseTexts}
    \cup {Ok(OptionT, v) : v \in OkValues}
    \cup {Err(OptionT, None)}

\* what the call stack gives a wrap call: the capture of Backtrace::new_unresolved
\* once resolved, and the frames get_caller(2) and get_caller(3) find, if any
Envs ==
    {[backtrace |-> <<>>, caller2 |-> None, caller3 |-> None],
     [backtrace |-> <<SymA, SymB>>, caller2 |-> Some(<<SymB>>), caller3 |-> Some(<<SymA>>)]}

\* formatter configurations: the fields are public, any u32 can be set
FormatWidths == {0, 5, 12, 26}
Formatters ==
    {[width |-> wd, side_padding |-> sp, simple_section |-> simple] :
        wd \in FormatWidths, sp \in {0, 1}, simple \in BOOLEAN}

\* sections to render: the custom ones, a frame entry with a correlation
\* prefix, an entry with a suffix, a cause and a text longer than the box
FrameLine ==
    [prefix |-> Some(red(<<"E", "0">>)), prefix_left |-> Some(blue(<<"7", ":", "5">>)),
     separator |-> "|", prefix_right |-> Some(purple(<<"a">>)), text |-> <<"f">>,
     suffix |-> None]
SuffixLine ==
    [prefix |-> None, prefix_left |-> None, separator |-> "|", prefix_right |-> None,
     text |-> <<"x">>, suffix |-> Some(<<"s", "u", "f", "f", "i", "x">>)]
Frames == [name |-> Backtrace, color |-> "Yellow", entries |-> <<FrameLine, SuffixLine>>]
Causes ==
    [name |-> Errors, color |-> "Red",
     entries |-> <<error_entry([error |-> FileNotFound], 0, 1)>>]
RenderSections == {Stage, Notes, Frames, Causes}

\* the output and the build: which write fails (0: none), and whether the
\* build checks arithmetic overflow (a debug build does)
WriteEnvs ==
    {[fail_on |-> k, overflow_checks |-> oc] : k \in 0..MaxWrites, oc \in BOOLEAN}

RenderInputs ==
    {[formatter |-> fm, sections |-> secs, env |-> env] :
        fm \in Formatters, secs \in SeqsUpTo(RenderSections, MaxSecs), env \in WriteEnvs}

\* frames for the 'entry loop: names whose modules and values hold the
\* patterns as whole fields, as segments and inside longer segments
FrameNames ==
    {None,
     Some(<<"a", ":", ":", "b", ":", ":", "h">>),
     Some(<<"a", "b", ":", ":", "a", "b", ":", ":", "b", ":", ":", "b", ":", ":", "h">>),
     Some(<<"b", ":", ":", "b", "a", ":", ":", "h">>),
     Some(<<"<", "a", "b", ":", ":", "b", " ", "a", "s", " ", "a", ":", ":", "a", "b", ">",
            ":", ":", "b", ":", ":", "h">>),
     Some(<<"<", "a", ":", ":", "a", " ", "a", "s", " ", "a", "b", ":", ":", "b", ">",
            ":", ":", "a", "b", ":", ":", "h">>)}

\* replace pairs of every matcher kind, and one whose text is a pattern
ReplacePairs ==
    {[matcher |-> Matcher(k, p), to |-> <<"X">>] :
        k \in {"Value", "Module", "Item", "Path"}, p \in {<<"a">>, <<"b">>}}
    \cup {[matcher |-> Matcher("Value", <<"b">>), to |-> <<"a">>]}

\* configurations for the 'entry loop
FrameConfigs ==
    {[filter |-> f, collapse |-> c, replace |-> r, replace_style |-> st,
      file_remove_library_prefix |-> FALSE, file_shorten_current_dir |-> FALSE,
      current_dir |-> None] :
        f \in {{}, {Matcher("Value", <<"b">>)}, {Matcher("Module", <<"a">>)}},
        c \in {{}, {Matcher("Item", <<"b">>)}, {Matcher("Module", <<"a">>), Matcher("Path", <<"ab">>)}},
        r \in SeqsUpTo(ReplacePairs, MaxPairs),
        st \in {"plain", "cyan"}}

\* names for the parser: every concatenation of a few fragments, and examples
Fragments == {<<"<">>, <<">">>, ColonColon, As, <<"a">>}
ExampleCast == <<"<", "A", ":", ":", "b", " ", "a", "s", " ", "C", ":", ":", "d", ">", ":", ":", "e", ":", ":", "h">>
ExamplePlain == <<"m", "o", "d", ":", ":", "s", "u", "b", ":", ":", "f", "u", "n", "c", ":", ":", "h">>
ExampleArrow == <<"<", "f", "n", "(", "a", ")", " ", "-", ">", " ", "b", " ", "a", "s", " ", "c", ">", ":", ":", "d", ":", ":", "h">>
ExampleShort == <<"a", ":", ":", "h">>
NameInputs ==
    {concat(fs) : fs \in SeqsUpTo(Fragments, MaxFrags)}
    \cup {ExampleCast, ExamplePlain, ExampleArrow, ExampleShort}

\* texts for get_length: every short text over four characters, and an example
LengthChars == {"ESC", "m", "[", "h"}
ExampleColored == <<"ESC", "[", "3", "1", "m", "h", "i", "ESC", "[", "0", "m">>
TextInputs == SeqsUpTo(LengthChars, MaxText) \cup {ExampleColored}

\* calls of align: a plain text, a coloured text and a text that ends inside
\* an escape sequence, in widths that overflow and that leave padding
AlignTexts == {<<"x">>, <<"ESC", "m", "y", "z">>, <<"ESC">>}
AlignWidths == {0, 3}
PaddingEntries ==
    {[text |-> t, width |-> w, alignment |-> a] :
        t \in AlignTexts, w \in AlignWidths, a \in {"Left", "Center", "Right"}}
CallInputs ==
    {[entries |-> es, max_width |-> mw, pad_char |-> pc, fail_on |-> fo] :
        es \in SeqsUpTo(PaddingEntries, MaxEntries),
        mw \in 0..MaxWidth,
        pc \in {" ", "BOX"},
        fo \in {0, 1}}

(***************************************************************************)
(* The state machines.                                                     *)
(***************************************************************************)
NothingPushed == [errors |-> <<>>, sections |-> <<>>]

IdleAudit ==
    audit = new_empty(<<>>) /\ processor = None /\ sections = None /\ pushed = NothingPushed
IdleParser == symbol = None /\ entry = None
IdleLength == text = None /\ length = None
IdleAlign == call = None /\ aligned = None

\* Audit::push_err
PushErr ==
    /\ sections = None
    /\ Len(audit.errors) < MaxErrs
    /\ \E err \in ErrorInputs :
           /\ audit' = push_err(audit, err)
           /\ pushed' = [pushed EXCEPT !.errors = Append(@, err)]
    /\ UNCHANGED <<processor, sections, symbol, entry, text, length, call, aligned, result, wrapcall, render, rendered, frame, row, itemname, itemresult, howler, HANDLER, fmtcalls>>

\* Audit::push_section
PushSection ==
    /\ sections = None
    /\ Len(audit.custom_sections) < MaxSecs
    /\ \E section \in SectionInputs :
           /\ audit' = push_section(audit, section)
           /\ pushed' = [pushed EXCEPT !.sections = Append(@, section)]
    /\ UNCHANGED <<processor, sections, symbol, entry, text, length, call, aligned, result, wrapcall, render, rendered, frame, row, itemname, itemresult, howler, HANDLER, fmtcalls>>

\* AuditProcessor::process
Process ==
    /\ sections = None
    /\ IsSome(processor)
    /\ sections' = Some(process(audit, Unwrap(processor)))
    /\ UNCHANGED <<audit, processor, pushed, symbol, entry, text, length, call, aligned, result, wrapcall, render, rendered, frame, row, itemname, itemresult, howler, HANDLER, fmtcalls>>

\* ProcessingEntry::new, for the value it parses
NewEntry ==
    /\ IsSome(symbol)
    /\ entry = None
    /\ entry' = Some(new_value(Unwrap(symbol)))
    /\ UNCHANGED <<audit, processor, sections, pushed, symbol, text, length, call, aligned, result, wrapcall, render, rendered, frame, row, itemname, itemresult, howler, HANDLER, fmtcalls>>

\* get_length
GetLength ==
    /\ IsSome(text)
    /\ length = None
    /\ length' = Some(get_length(Unwrap(text)))
    /\ UNCHANGED <<audit, processor, sections, pushed, symbol, entry, text, call, aligned, result, wrapcall, render, rendered, frame, row, itemname, itemresult, howler, HANDLER, fmtcalls>>

\* align
Align ==
    /\ IsSome(call)
    /\ aligned = None
    /\ aligned' = Some(align(Unwrap(call)))
    /\ UNCHANGED <<audit, processor, sections, pushed, symbol, entry, text, length, call, result, wrapcall, render, rendered, frame, row, itemname, itemresult, howler, HANDLER, fmtcalls>>

IdleWrap == result = None /\ wrapcall = None

\* the causes and the custom sections an Err holds; none for an Ok
causes(r) == IF r.ok \/ r.ty \in {ResultPlain, OptionT} THEN <<>> ELSE r.value.errors
custom(r) == IF r.ok \/ r.ty # ResultAudit THEN <<>> ELSE r.value.custom_sections

\* the receiver has a type AuditExt is implemented for
AuditExtReceiver ==
    /\ IsSome(result)
    /\ Unwrap(result).ty \in {ResultPlain, ResultAudit, OptionT}

\* AuditExt::wrap_err
WrapErr ==
    /\ AuditExtReceiver
    /\ Len(causes(Unwrap(result))) < MaxErrs
    /\ \E err \in CauseTexts, env \in Envs :
           LET r == wrap_err(Unwrap(result), err, env)
           IN  /\ result' = Some(r.result)
               /\ wrapcall' = Some([method |-> "wrap_err", self |-> Unwrap(result),
                                    err |-> Some(err), ran |-> r.ran])
    /\ UNCHANGED <<audit, processor, sections, pushed, symbol, entry, text, length, call, aligned, render, rendered, frame, row, itemname, itemresult, howler, HANDLER, fmtcalls>>

\* AuditExt::wrap_err_with
WrapErrWith ==
    /\ AuditExtReceiver
    /\ Len(causes(Unwrap(result))) < MaxErrs
    /\ \E err \in CauseTexts, env \in Envs :
           LET r == wrap_err_with(Unwrap(result), err, env)
           IN  /\ result' = Some(r.result)
               /\ wrapcall' = Some([method |-> "wrap_err_with", self |-> Unwrap(result),
                                    err |-> Some(err), ran |-> r.ran])
    /\ UNCHANGED <<audit, processor, sections, pushed, symbol, entry, text, length, call, aligned, render, rendered, frame, row, itemname, itemresult, howler, HANDLER, fmtcalls>>

\* AuditExt::wrap with a closure that pushes a section (wrap_section)
WrapSection ==
    /\ AuditExtReceiver
    /\ Len(custom(Unwrap(result))) < MaxSecs
    /\ \E section \in SectionInputs, env \in Envs :
           LET r == wrap_section(Unwrap(result), section, env)
           IN  /\ result' = Some(r.result)
               /\ wrapcall' = Some([method |-> "wrap", self |-> Unwrap(result),
                                    err |-> None, ran |-> r.ran])
    /\ UNCHANGED <<audit, processor, sections, pushed, symbol, entry, text, length, call, aligned, render, rendered, frame, row, itemname, itemresult, howler, HANDLER, fmtcalls>>

\* ReportExt::wrap_err and ReportExt::wrap_err_with
ReportWrapErr ==
    /\ IsSome(result)
    /\ Unwrap(result).ty \in {ResultPlain, ResultReport}
    /\ Len(causes(Unwrap(result))) < MaxErrs
    /\ \E err \in CauseTexts, env \in Envs, method \in {"wrap_err", "wrap_err_with"} :
           LET r == ReportExt_wrap_err(Unwrap(result), err, env)
           IN  /\ result' = Some(r.result)
               /\ wrapcall' = Some([method |-> method, self |-> Unwrap(result),
                                    err |-> Some(err), ran |-> r.ran])
    /\ UNCHANGED <<audit, processor, sections, pushed, symbol, entry, text, length, call, aligned, render, rendered, frame, row, itemname, itemresult, howler, HANDLER, fmtcalls>>

IdleFormat == render = None /\ rendered = None

\* AnywaysAuditFormatter::format
Format ==
    /\ IsSome(render)
    /\ rendered = None
    /\ rendered' = Some(format(Unwrap(render).formatter, Unwrap(render).sections,
                               Unwrap(render).env))
    /\ UNCHANGED <<audit, processor, sections, pushed, symbol, entry, text, length, call, aligned, result, wrapcall, render, frame, row, itemname, itemresult, howler, HANDLER, fmtcalls>>

\* no frame is in the 'entry loop
IdleFrame == frame = None

\* the 'entry loop body on one entry, a step at a time.  pc is the place in
\* the body, k the number of replace pairs applied; parsed (the value the
\* parser gave) and before (the value before the last pair) are history.
NewFrame(name) ==
    LET e == ProcessingEntry_new([name |-> name, filename |-> None,
                                  lineno |-> None, colno |-> None], <<>>)
    IN  [entry |-> e, pc |-> "filter", k |-> 0, parsed |-> e.value, before |-> e.value]

\* the filter loop: continue 'entry on the first match
FilterEntry ==
    /\ IsSome(frame) /\ Unwrap(frame).pc = "filter"
    /\ frame' = Some([Unwrap(frame) EXCEPT
                          !.pc = IF filter_matches(Unwrap(frame).entry, Unwrap(processor))
                                 THEN "skipped" ELSE "collapse"])
    /\ UNCHANGED <<audit, processor, sections, pushed, symbol, entry, text, length, call, aligned, result, wrapcall, render, rendered, row, itemname, itemresult, howler, HANDLER, fmtcalls>>

\* the collapse loop
MarkCollapsable ==
    /\ IsSome(frame) /\ Unwrap(frame).pc = "collapse"
    /\ frame' = Some([Unwrap(frame) EXCEPT
                          !.entry = mark_collapsable(@, Unwrap(processor)),
                          !.pc = "replace"])
    /\ UNCHANGED <<audit, processor, sections, pushed, symbol, entry, text, length, call, aligned, result, wrapcall, render, rendered, row, itemname, itemresult, howler, HANDLER, fmtcalls>>

\* one iteration of the replace loop
ReplaceEntry ==
    /\ IsSome(frame) /\ Unwrap(frame).pc = "replace"
    /\ Unwrap(frame).k < Len(Unwrap(processor).replace)
    /\ frame' = Some([Unwrap(frame) EXCEPT
                          !.entry = replace_pair(@, Unwrap(processor).replace[Unwrap(frame).k + 1],
                                                 Unwrap(processor)),
                          !.before = Unwrap(frame).entry.value,
                          !.k = @ + 1])
    /\ UNCHANGED <<audit, processor, sections, pushed, symbol, entry, text, length, call, aligned, result, wrapcall, render, rendered, row, itemname, itemresult, howler, HANDLER, fmtcalls>>

\* entries.push(entry), once the replace loop is over
PushEntry ==
    /\ IsSome(frame) /\ Unwrap(frame).pc = "replace"
    /\ Unwrap(frame).k = Len(Unwrap(processor).replace)
    /\ frame' = Some([Unwrap(frame) EXCEPT !.pc = "pushed"])
    /\ UNCHANGED <<audit, processor, sections, pushed, symbol, entry, text, length, call, aligned, result, wrapcall, render, rendered, row, itemname, itemresult, howler, HANDLER, fmtcalls>>

\* no entry is being written
IdleRow == row = None

\* entries for write_section_entry: a frame entry with a correlation
\* prefix, an entry with a suffix, a cause longer than a narrow box, and a
\* long text with a suffix
LongSuffixLine ==
    [prefix |-> None, prefix_left |-> None, separator |-> "|", prefix_right |-> None,
     text |-> FileNotFound, suffix |-> Some(<<"s", "f">>)]
EntryInputs ==
    {FrameLine, SuffixLine, LongSuffixLine, error_entry([error |-> FileNotFound], 0, 1)}
RowFormatters ==
    {[width |-> wd, side_padding |-> sp, simple_section |-> simple] :
        wd \in {5, 12, 26}, sp \in {0, 1}, simple \in BOOLEAN}

\* write_section_entry on one entry, a step at a time.  pc is the place in
\* the body, i the number of characters of the text the loop has taken, st
\* the loop state (the output, the line, the suffix and prefix not yet
\* taken) and calls the arguments of the calls of write_section_line so far.
NewRow(fm, e, c, env) ==
    [formatter |-> fm, entry |-> e, color |-> c, env |-> env, pc |-> "compose",
     text |-> <<>>, content_width |-> 0, i |-> 0,
     st |-> [w |-> no_output, line |-> <<>>, suffix |-> e.suffix, prefix |-> e.prefix],
     calls |-> <<>>]

\* the arguments of one call of write_section_line
LineCall(t, suffix, prefix) == [t |-> t, suffix |-> suffix, prefix |-> prefix]

\* the text is composed and content_width computed; the wrapped value of a
\* subtraction that underflows without overflow checks is a width no text
\* reaches
ComposeText ==
    /\ IsSome(row) /\ Unwrap(row).pc = "compose"
    /\ LET r == Unwrap(row)
           t == entry_text(r.entry, r.color)
           content_width == usize_sub_all(r.formatter.width,
                                          <<r.formatter.side_padding * 2, 2>>)
       IN  row' = Some(
               IF content_width.underflow /\ r.env.overflow_checks
               THEN [r EXCEPT !.text = t, !.st.w = panic(r.st.w), !.pc = "done"]
               ELSE IF ~content_width.underflow /\ get_length(t) > content_width.value
               THEN [r EXCEPT !.text = t, !.content_width = content_width.value,
                              !.pc = "loop"]
               ELSE [r EXCEPT !.text = t, !.pc = "whole"])
    /\ UNCHANGED <<audit, processor, sections, pushed, symbol, entry, text, length, call, aligned, result, wrapcall, render, rendered, frame, itemname, itemresult, howler, HANDLER, fmtcalls>>

\* the else branch: the text fits and is written as it is
WriteWhole ==
    /\ IsSome(row) /\ Unwrap(row).pc = "whole"
    /\ LET r == Unwrap(row)
       IN  row' = Some([r EXCEPT
               !.st.w = write_section_line(r.st.w, r.formatter, r.text, r.entry.suffix,
                                           r.entry.prefix, r.color, r.env),
               !.calls = Append(@, LineCall(r.text, r.entry.suffix, r.entry.prefix)),
               !.pc = "done"])
    /\ UNCHANGED <<audit, processor, sections, pushed, symbol, entry, text, length, call, aligned, result, wrapcall, render, rendered, frame, itemname, itemresult, howler, HANDLER, fmtcalls>>

\* one iteration of the loop over text.chars(); a write that fails or
\* panics ends the function
PushChar ==
    /\ IsSome(row) /\ Unwrap(row).pc = "loop"
    /\ Unwrap(row).i < Len(Unwrap(row).text)
    /\ LET r == Unwrap(row)
           ch == r.text[r.i + 1]
           line == Append(r.st.line, ch)
           len == (IF IsSome(r.st.suffix) THEN get_length(Unwrap(r.st.suffix)) ELSE 0)
                  + get_length(line)
           next == entry_wrap_step(r.st, ch, r.formatter, r.content_width, r.color, r.env)
       IN  row' = Some([r EXCEPT
               !.st = next,
               !.i = @ + 1,
               !.calls = IF len = r.content_width
                         THEN Append(@, LineCall(line, r.st.suffix, r.st.prefix))
                         ELSE @,
               !.pc = IF next.w.result # "Ok" THEN "done" ELSE "loop"])
    /\ UNCHANGED <<audit, processor, sections, pushed, symbol, entry, text, length, call, aligned, result, wrapcall, render, rendered, frame, itemname, itemresult, howler, HANDLER, fmtcalls>>

\* after the loop: the rest of the text, if any
WriteRest ==
    /\ IsSome(row) /\ Unwrap(row).pc = "loop"
    /\ Unwrap(row).i = Len(Unwrap(row).text)
    /\ LET r == Unwrap(row)
       IN  row' = Some(
               IF Len(r.st.line) # 0
               THEN [r EXCEPT
                        !.st.w = write_section_line(r.st.w, r.formatter, r.st.line,
                                                    r.st.suffix, r.st.prefix, r.color, r.env),
                        !.calls = Append(@, LineCall(r.st.line, r.st.suffix, r.st.prefix)),
                        !.pc = "done"]
               ELSE [r EXCEPT !.pc = "done"])
    /\ UNCHANGED <<audit, processor, sections, pushed, symbol, entry, text, length, call, aligned, result, wrapcall, render, rendered, frame, itemname, itemresult, howler, HANDLER, fmtcalls>>

\* no name is being parsed by process_item
IdleItem == itemname = None /\ itemresult = None

\* HowlerEntry::process_item
ProcessItem ==
    /\ IsSome(itemname)
    /\ itemresult = None
    /\ itemresult' = Some(process_item(Unwrap(itemname)))
    /\ UNCHANGED <<audit, processor, sections, pushed, symbol, entry, text, length, call, aligned, result, wrapcall, render, rendered, frame, row, itemname, howler, HANDLER, fmtcalls>>

(***************************************************************************)
(* default.rs: ReportProcessor::format, on the String it is handed.  The   *)
(* String is kept as the lines written so far: every write of format ends  *)
(* with a writeln.                                                         *)
(***************************************************************************)
\* owo_colors: the two colours only default.rs uses
green(t) == sgr(<<"3", "2">>) \o t \o sgr(<<"3", "9">>)
bright_white(t) == sgr(<<"9", "7">>) \o t \o sgr(<<"3", "9">>)

\* ProcessorSettings of ReportProcessor::new
place_width == 6
location_width == 10

\* format!("{s: >width$}"): spaces in front, up to width characters
pad_front(s, width) == repeat(" ", IF Len(s) < width THEN width - Len(s) ELSE 0) \o s
\* format!("{s: <width$}"): spaces behind, up to width characters
pad_back(s, width) == s \o repeat(" ", IF Len(s) < width THEN width - Len(s) ELSE 0)

TitleErrors == <<"E", "r", "r", "o", "r", "s", ":">>
TitleBacktrace == <<"B", "a", "c", "k", "t", "r", "a", "c", "e", ":">>
UnknownFile == <<"u", "n", "k", "n", "o", "w", "n", " ", "f", "i", "l", "e">>

\* ReportProcessor::write_title: an empty line, then the title line
write_title(f, name) ==
    f \o << <<>>,
            bold(red(repeat("=", place_width))) \o bold(red(<<"=", ">">>)) \o <<" ">>
                \o bold(bright_white(name)) >>

\* ReportProcessor::write_line
write_line(f, prefix, suffix, value) ==
    Append(f,
           (IF prefix # <<>> THEN bold(blue(pad_front(prefix, place_width))) ELSE <<>>)
               \o bold(white(<<" ", "|", " ">>))
               \o (IF suffix # <<>> THEN bold(purple(pad_back(suffix, location_width)))
                   ELSE <<>>)
               \o value)

\* an error is its Display text and the texts of its chain of sources;
\* Error::source gives the first of the chain, with the rest as its own chain
source(error) ==
    IF error.chain = <<>> THEN None
    ELSE Some([text |-> Head(error.chain), chain |-> Tail(error.chain)])

\* format!("#{err}")
number_label(err) == <<"#">> \o to_string(err)

\* the loop over section.entries
RECURSIVE write_report_entries(_, _)
write_report_entries(f, entries) ==
    IF entries = <<>> THEN f
    ELSE write_report_entries(write_line(f, Head(entries).prefix, Head(entries).suffix,
                                  Head(entries).value),
                       Tail(entries))

\* the loop over self.report.sections
RECURSIVE write_report_sections(_, _)
write_report_sections(f, secs) ==
    IF secs = <<>> THEN f
    ELSE write_report_sections(write_report_entries(write_title(f, Head(secs).name), Head(secs).entries),
                        Tail(secs))

\* the place of a backtrace entry: "line", "line:character" or ":character"
place(e) ==
    (IF IsSome(e.line) THEN to_string(Unwrap(e.line)) ELSE <<>>)
        \o (IF IsSome(e.character) THEN <<":">> \o to_string(Unwrap(e.character)) ELSE <<>>)

\* the keywords of a backtrace entry's value and what replaces each, in the
\* order of the replacements
Keywords ==
    << <<(<<"UP">>), white(<<"UP">>)>>,
       <<(<<"-", ">">>), white(<<"-", ">">>)>>,
       <<(<<"D", "e", "r", "e", "f", ":", ":", "d", "e", "r", "e", "f", ":", ":">>),
         red(<<"d", "e", "r", "e", "f", ":", ":">>)>>,
       <<(<<"b", "o", "x", "e", "d", ":", ":", "B", "o", "x", "<", "F", ",", "A", ">">>),
         red(<<"b", "o", "x">>)>>,
       <<(<<"F", "n", "O", "n", "c", "e">>), green(<<"F", "n", "O", "n", "c", "e">>)>>,
       <<(<<"|", "f", "n", "|">>), green(<<"|", "f", "n", "|">>)>>,
       <<(<<"[", "v", "t", "a", "b", "l", "e", "]">>),
         green(<<"[", "v", "t", "a", "b", "l", "e", "]">>)>>,
       <<(<<":", ":">>), white(<<":", ":">>)>> >>

\* value.replace(keyword, coloured) for the n-th keyword and those after it
RECURSIVE keywords(_, _)
keywords(value, n) ==
    IF n > Len(Keywords) THEN value
    ELSE CHOOSE out \in {keywords(v, n + 1) :
                            v \in {replace_all(value, Keywords[n][1], Keywords[n][2])}} : TRUE

\* the loop over file.entries
RECURSIVE write_file_entries(_, _)
write_file_entries(f, entries) ==
    IF entries = <<>> THEN f
    ELSE LET e == Head(entries)
         IN  write_file_entries(
                 write_line(f, place(e),
                            IF IsSome(e.module) THEN Unwrap(e.module) ELSE UNKNOWN,
                            keywords(IF IsSome(e.value) THEN Unwrap(e.value) ELSE UNKNOWN, 1)),
                 Tail(entries))

\* the loop over self.files: the file line, its entries, an empty line
RECURSIVE write_files(_, _)
write_files(f, files) ==
    IF files = <<>> THEN f
    ELSE LET file == Head(files)
             named == Append(f, repeat(" ", place_width + 1)
                                    \o bold(white(IF IsSome(file.file) THEN Unwrap(file.file)
                                                  ELSE UnknownFile)))
         IN  write_files(Append(write_file_entries(named, file.entries), <<>>), Tail(files))

\* a ReportProcessor at the start of format: pc is where format stands, e the
\* number of errors the for loop has taken, err the counter, f the output.
\* The counter and the output are followed up to MaxNumber; of the turns the
\* source loop takes after that, turn keeps whether their number is odd
NewHowler(report, files) ==
    [report |-> report, files |-> files, pc |-> "title", e |-> 0, err |-> 0, f |-> <<>>,
     turn |-> 0]

\* the error the for loop stands at
current(hw) == hw.report.errors[hw.e]

\* write_title(.., "Errors:") and `let mut err = 0`
title_step(hw) == [hw EXCEPT !.f = write_title(@, TitleErrors), !.pc = "errors"]

\* the for loop takes the next error and writes its line
error_step(hw) ==
    [hw EXCEPT !.e = @ + 1,
               !.f = write_line(@, number_label(hw.err), <<>>, hw.report.errors[hw.e + 1].text),
               !.err = @ + 1,
               !.pc = "sources"]

\* the body of `while let Some(child) = current.source()`: current stays
source_step(hw) ==
    IF hw.err < MaxNumber
    THEN [hw EXCEPT !.f = write_line(@, number_label(hw.err), <<>>,
                                     Unwrap(source(current(hw))).text),
                    !.err = @ + 1]
    ELSE [hw EXCEPT !.turn = 1 - @]

\* current.source() is None: the while loop is left
end_sources_step(hw) == [hw EXCEPT !.pc = "errors"]

\* the errors are exhausted: the loop over the sections
sections_step(hw) == [hw EXCEPT !.f = write_report_sections(@, hw.report.sections), !.pc = "backtrace"]

\* write_title(.., "Backtrace:"), the loop over the files and Ok(())
backtrace_step(hw) ==
    [hw EXCEPT !.f = write_files(write_title(@, TitleBacktrace), hw.files), !.pc = "done"]

\* the errors of the reports
PlainError == [text |-> FileNotFound, chain |-> <<>>]
OtherError == [text |-> InitializationFailed, chain |-> <<>>]
CausedError == [text |-> InitializationFailed, chain |-> <<FileNotFound>>]
DeepError == [text |-> <<"s", "t", "a", "r", "t">>, chain |-> <<InitializationFailed, FileNotFound>>]
ReportErrors == {PlainError, OtherError, CausedError, DeepError}

\* the custom sections of the reports
ReportSection ==
    [name |-> <<"N", "o", "t", "e", "s", ":">>,
     entries |-> <<[prefix |-> <<"1">>, suffix |-> <<>>, value |-> <<"r", "e", "t", "r", "y">>],
                   [prefix |-> <<>>, suffix |-> <<"i", "o">>, value |-> <<"d", "i", "s", "k">>]>>]
ReportSectionLists == {<<>>, <<ReportSection>>}

\* the files of the processor: none, and a named and an unknown file
HowlerFiles ==
    {<<>>,
     <<[file |-> Some(<<".", "/", "m", "a", "i", "n", ".", "r", "s">>),
        entries |-> <<[line |-> Some(12), character |-> Some(5), module |-> Some(<<"a", "p", "p">>),
                       value |-> Some(<<"r", "u", "n", ":", ":", "F", "n", "O", "n", "c", "e">>)]>>],
       [file |-> None,
        entries |-> <<[line |-> None, character |-> None, module |-> None, value |-> None]>>]>>}

IdleReport == howler = None

WriteErrorsTitle ==
    /\ IsSome(howler)
    /\ Unwrap(howler).pc = "title"
    /\ howler' = Some(title_step(Unwrap(howler)))
    /\ UNCHANGED <<audit, processor, sections, pushed, symbol, entry, text, length, call, aligned, result, wrapcall, render, rendered, frame, row, itemname, itemresult, HANDLER, fmtcalls>>

WriteError ==
    /\ IsSome(howler)
    /\ Unwrap(howler).pc = "errors"
    /\ Unwrap(howler).e < Len(Unwrap(howler).report.errors)
    /\ howler' = Some(error_step(Unwrap(howler)))
    /\ UNCHANGED <<audit, processor, sections, pushed, symbol, entry, text, length, call, aligned, result, wrapcall, render, rendered, frame, row, itemname, itemresult, HANDLER, fmtcalls>>

WriteSource ==
    /\ IsSome(howler)
    /\ Unwrap(howler).pc = "sources"
    /\ IsSome(source(current(Unwrap(howler))))
    /\ howler' = Some(source_step(Unwrap(howler)))
    /\ UNCHANGED <<audit, processor, sections, pushed, symbol, entry, text, length, call, aligned, result, wrapcall, render, rendered, frame, row, itemname, itemresult, HANDLER, fmtcalls>>

EndSources ==
    /\ IsSome(howler)
    /\ Unwrap(howler).pc = "sources"
    /\ source(current(Unwrap(howler))) = None
    /\ howler' = Some(end_sources_step(Unwrap(howler)))
    /\ UNCHANGED <<audit, processor, sections, pushed, symbol, entry, text, length, call, aligned, result, wrapcall, render, rendered, frame, row, itemname, itemresult, HANDLER, fmtcalls>>

WriteSections ==
    /\ IsSome(howler)
    /\ Unwrap(howler).pc = "errors"
    /\ Unwrap(howler).e = Len(Unwrap(howler).report.errors)
    /\ howler' = Some(sections_step(Unwrap(howler)))
    /\ UNCHANGED <<audit, processor, sections, pushed, symbol, entry, text, length, call, aligned, result, wrapcall, render, rendered, frame, row, itemname, itemresult, HANDLER, fmtcalls>>

WriteBacktrace ==
    /\ IsSome(howler)
    /\ Unwrap(howler).pc = "backtrace"
    /\ howler' = Some(backtrace_step(Unwrap(howler)))
    /\ UNCHANGED <<audit, processor, sections, pushed, symbol, entry, text, length, call, aligned, result, wrapcall, render, rendered, frame, row, itemname, itemresult, HANDLER, fmtcalls>>

(***************************************************************************)
(* handler.rs: the static HANDLER and fmt.  The reports rendered have a    *)
(* capture without frames, so ReportProcessor::new yields no files and     *)
(* process has nothing to work on.                                         *)
(***************************************************************************)
DefaultHandler == "DefaultHandler"

\* the step format takes where it stands
format_step(hw) ==
    CASE hw.pc = "title" -> title_step(hw)
      [] hw.pc = "errors" ->
             IF hw.e < Len(hw.report.errors) THEN error_step(hw) ELSE sections_step(hw)
      [] hw.pc = "sources" ->
             IF IsSome(source(current(hw))) THEN source_step(hw) ELSE end_sources_step(hw)
      [] hw.pc = "backtrace" -> backtrace_step(hw)

\* format from where it stands to its return
RECURSIVE run_format(_)
run_format(hw) == IF hw.pc = "done" THEN hw ELSE run_format(format_step(hw))

\* format never leaves the source loop of an error that has a source
never_returns(report) == \E i \in 1..Len(report.errors) : IsSome(source(report.errors[i]))

\* DefaultHandler::format_report on an empty String: the '\n', then the
\* processor's format
format_report(handler, report) ==
    IF never_returns(report) THEN [returns |-> FALSE, string |-> <<>>]
    ELSE [returns |-> TRUE,
          string |-> run_format([NewHowler(report, <<>>) EXCEPT !.f = << <<>> >>]).f]

\* handler::fmt on the slot it finds; sink_ok tells whether f.write_str
\* succeeds
fmt_always_installs(slot, report, sink_ok) ==
    LET after == Some(DefaultHandler)
        out == format_report(Unwrap(after), report)
    IN  [slot |-> after, installed |-> TRUE, handler |-> Unwrap(after),
         returns |-> out.returns,
         result |-> IF ~out.returns THEN "none" ELSE IF sink_ok THEN "Ok" ELSE "Err",
         written |-> IF out.returns /\ sink_ok THEN out.string ELSE <<>>]

fmt(slot, report, sink_ok) ==
    LET installed == slot = None
        after == IF installed THEN Some(DefaultHandler) ELSE slot
        out == format_report(Unwrap(after), report)
    IN  [slot |-> after, installed |-> installed, handler |-> Unwrap(after),
         returns |-> out.returns,
         result |-> IF ~out.returns THEN "none" ELSE IF sink_ok THEN "Ok" ELSE "Err",
         written |-> IF out.returns /\ sink_ok THEN out.string ELSE <<>>]

\* the reports rendered
FmtReports ==
    {[errors |-> errs, sections |-> secs] :
        errs \in {<<PlainError>>, <<OtherError>>, <<CausedError>>, <<PlainError, OtherError>>},
        secs \in ReportSectionLists}

IdleHandler == HANDLER = None /\ fmtcalls = <<>>

\* the next call of a sequential series: the call before it has returned
Fmt ==
    /\ Len(fmtcalls) < MaxCalls
    /\ fmtcalls # <<>> => fmtcalls[Len(fmtcalls)].returns
    /\ \E report \in FmtReports, sink_ok \in BOOLEAN :
           LET r == fmt(HANDLER, report, sink_ok)
           IN  /\ HANDLER' = r.slot
               /\ fmtcalls' = Append(fmtcalls,
                                     [report |-> report, installed |-> r.installed,
                                      handler |-> r.handler, returns |-> r.returns,
                                      result |-> r.result, written |-> r.written])
    /\ UNCHANGED <<audit, processor, sections, pushed, symbol, entry, text, length, call, aligned, result, wrapcall, render, rendered, frame, row, itemname, itemresult, howler>>

\* an audit under construction, then processed
Init ==
    /\ \E bt \in SampleBacktraces : audit = new_empty(bt)
    /\ \E proc \in Configs : processor = Some(proc)
    /\ sections = None
    /\ pushed = NothingPushed
    /\ IdleParser /\ IdleLength /\ IdleAlign /\ IdleWrap /\ IdleFormat /\ IdleFrame /\ IdleRow /\ IdleItem /\ IdleReport /\ IdleHandler

Next == PushErr \/ PushSection \/ Process

Spec == Init /\ [][Next]_vars

\* the processor on every short capture
InitBacktrace ==
    /\ \E bt \in SeqsUpTo(SymbolKinds, MaxSyms) : audit = new_empty(bt)
    /\ \E proc \in Configs : processor = Some(proc)
    /\ sections = None
    /\ pushed = NothingPushed
    /\ IdleParser /\ IdleLength /\ IdleAlign /\ IdleWrap /\ IdleFormat /\ IdleFrame /\ IdleRow /\ IdleItem /\ IdleReport /\ IdleHandler

NextBacktrace == Process

SpecBacktrace == InitBacktrace /\ [][NextBacktrace]_vars

\* the processor on the longer captures of few symbol kinds
InitGroups ==
    /\ \E bt \in SeqsUpTo(GroupSymbols, MaxFrames) : audit = new_empty(bt)
    /\ \E proc \in FilteringConfigs : processor = Some(proc)
    /\ sections = None
    /\ pushed = NothingPushed
    /\ IdleParser /\ IdleLength /\ IdleAlign /\ IdleWrap /\ IdleFormat /\ IdleFrame /\ IdleRow /\ IdleItem /\ IdleReport /\ IdleHandler

NextGroups == Process

SpecGroups == InitGroups /\ [][NextGroups]_vars

\* the wrap methods, called one after the other on what the last returned
InitWrap ==
    /\ \E r \in Receivers : result = Some(r)
    /\ wrapcall = None
    /\ IdleAudit /\ IdleParser /\ IdleLength /\ IdleAlign /\ IdleFormat /\ IdleFrame /\ IdleRow /\ IdleItem /\ IdleReport /\ IdleHandler

NextWrap == WrapErr \/ WrapErrWith \/ WrapSection \/ ReportWrapErr

SpecWrap == InitWrap /\ [][NextWrap]_vars

\* format on every list of sections, formatter and output
InitFormat ==
    /\ \E r \in RenderInputs : render = Some(r)
    /\ rendered = None
    /\ IdleAudit /\ IdleParser /\ IdleLength /\ IdleAlign /\ IdleWrap /\ IdleFrame /\ IdleRow /\ IdleItem /\ IdleReport /\ IdleHandler

NextFormat == Format

SpecFormat == InitFormat /\ [][NextFormat]_vars

\* the 'entry loop body on every frame and configuration
InitFrame ==
    /\ \E name \in FrameNames : frame = Some(NewFrame(name))
    /\ \E proc \in FrameConfigs : processor = Some(proc)
    /\ audit = new_empty(<<>>) /\ sections = None /\ pushed = NothingPushed
    /\ IdleParser /\ IdleLength /\ IdleAlign /\ IdleWrap /\ IdleFormat /\ IdleRow /\ IdleItem /\ IdleReport /\ IdleHandler

NextFrame == FilterEntry \/ MarkCollapsable \/ ReplaceEntry \/ PushEntry

SpecFrame == InitFrame /\ [][NextFrame]_vars

\* write_section_entry on every entry, formatter and output
InitRow ==
    /\ \E fm \in RowFormatters, e \in EntryInputs, env \in WriteEnvs :
           row = Some(NewRow(fm, e, "Yellow", env))
    /\ IdleAudit /\ IdleParser /\ IdleLength /\ IdleAlign /\ IdleWrap /\ IdleFormat /\ IdleFrame /\ IdleItem /\ IdleReport /\ IdleHandler

NextRow == ComposeText \/ WriteWhole \/ PushChar \/ WriteRest

SpecRow == InitRow /\ [][NextRow]_vars

\* process_item on every optional name
InitItem ==
    /\ \E name \in {None} \cup {Some(n) : n \in NameInputs} : itemname = Some(name)
    /\ itemresult = None
    /\ IdleAudit /\ IdleParser /\ IdleLength /\ IdleAlign /\ IdleWrap /\ IdleFormat /\ IdleFrame /\ IdleRow /\ IdleReport /\ IdleHandler

NextItem == ProcessItem

SpecItem == InitItem /\ [][NextItem]_vars

\* format on every report and list of files
InitReport ==
    /\ \E errs \in SeqsUpTo(ReportErrors, MaxReportErrs), secs \in ReportSectionLists,
          files \in HowlerFiles :
           howler = Some(NewHowler([errors |-> errs, sections |-> secs], files))
    /\ IdleAudit /\ IdleParser /\ IdleLength /\ IdleAlign /\ IdleWrap /\ IdleFormat /\ IdleFrame /\ IdleRow /\ IdleItem /\ IdleHandler

NextReport ==
    WriteErrorsTitle \/ WriteError \/ WriteSource \/ EndSources \/ WriteSections \/ WriteBacktrace

\* format runs inline: a step that can be taken is taken
SpecReport == InitReport /\ [][NextReport]_vars /\ WF_vars(NextReport)

\* a process that renders reports one after the other
InitHandler ==
    /\ HANDLER = None
    /\ fmtcalls = <<>>
    /\ IdleAudit /\ IdleParser /\ IdleLength /\ IdleAlign /\ IdleWrap /\ IdleFormat /\ IdleFrame /\ IdleRow /\ IdleItem /\ IdleReport

NextHandler == Fmt

SpecHandler == InitHandler /\ [][NextHandler]_vars

\* the symbol parser on every name
InitParser ==
    /\ \E name \in {None} \cup {Some(n) : n \in NameInputs} : symbol = Some(name)
    /\ entry = None
    /\ IdleAudit /\ IdleLength /\ IdleAlign /\ IdleWrap /\ IdleFormat /\ IdleFrame /\ IdleRow /\ IdleItem /\ IdleReport /\ IdleHandler

NextParser == NewEntry

SpecParser == InitParser /\ [][NextParser]_vars

\* get_length on every text
InitLength ==
    /\ \E t \in TextInputs : text = Some(t)
    /\ length = None
    /\ IdleAudit /\ IdleParser /\ IdleAlign /\ IdleWrap /\ IdleFormat /\ IdleFrame /\ IdleRow /\ IdleItem /\ IdleReport /\ IdleHandler

NextLength == GetLength

SpecLength == InitLength /\ [][NextLength]_vars

\* align on every call
InitAlign ==
    /\ \E c \in CallInputs : call = Some(c)
    /\ aligned = None
    /\ IdleAudit /\ IdleParser /\ IdleLength /\ IdleWrap /\ IdleFormat /\ IdleFrame /\ IdleRow /\ IdleItem /\ IdleReport /\ IdleHandler

NextAlign == Align

SpecAlign == InitAlign /\ [][NextAlign]_vars

(***************************************************************************)
(* Reference notions the properties are stated with.                       *)
(***************************************************************************)
\* position i of t lies in an escape sequence: some ESC at or before i has
\* no "m" strictly between it and i
InEscape(t, i) ==
    \E j \in 1..i : t[j] = "ESC" /\ \A k \in (j + 1)..(i - 1) : t[k] # "m"

VisibleIndices(t) == {i \in 1..Len(t) : ~InEscape(t, i)}

\* the k-th smallest element of a set of numbers
Nth(S, k) == CHOOSE i \in S : Cardinality({j \in S : j <= i}) = k

\* the characters of t outside every escape sequence, in order
VisibleText(t) ==
    [k \in 1..Cardinality(VisibleIndices(t)) |-> t[Nth(VisibleIndices(t), k)]]

Digit(d) == <<"0", "1", "2", "3", "4", "5", "6", "7", "8", "9">>[d + 1]
Decimal(i) == IF i < 10 THEN <<Digit(i)>> ELSE <<Digit(i \div 10), Digit(i % 10)>>

Processed == IsSome(sections)

\* the section process placed right after the custom sections
ErrorsSection == Unwrap(sections)[Len(audit.custom_sections) + 1]

(***************************************************************************)
(* C1: the Errors section has one entry per cause pushed; entry i is       *)
(* labelled "E{i}", entry 0 is the cause pushed last and entry N-1 the     *)
(* cause pushed first; the separator is the terminal arrow on entry N-1    *)
(* and the down arrow on every other entry; no causes, no entries.         *)
(***************************************************************************)
C1_ErrorsNewestFirst ==
    Processed =>
        LET es == ErrorsSection.entries
            N == Len(pushed.errors)
        IN  /\ Len(es) = N
            /\ \A i \in 0..(N - 1) :
                   /\ IsSome(es[i + 1].prefix_left)
                   /\ VisibleText(Unwrap(es[i + 1].prefix_left)) = <<"E">> \o Decimal(i)
                   /\ es[i + 1].text = pushed.errors[N - i].error
                   /\ es[i + 1].separator = IF i = N - 1 THEN "RIGHT" ELSE "DOWN"

C1_Witness ==
    /\ Processed
    /\ Len(pushed.errors) = 3
    /\ pushed.errors[1].error # pushed.errors[3].error
    /\ ErrorsSection.entries[3].separator = "RIGHT"

(***************************************************************************)
(* C2: process returns the custom sections in the order push_section was   *)
(* given them, unchanged, then the section named Errors, then the section  *)
(* named Backtrace as the last one: custom_sections.len() + 2 in all.      *)
(***************************************************************************)
C2_SectionOrder ==
    Processed =>
        LET secs == Unwrap(sections)
            n == Len(pushed.sections)
        IN  /\ Len(secs) = n + 2
            /\ SubSeq(secs, 1, n) = pushed.sections
            /\ secs[n + 1].name = Errors
            /\ secs[n + 2].name = Backtrace
            /\ Cardinality({k \in 1..Len(secs) : secs[k].name = Errors}) = 1
            /\ Cardinality({k \in 1..Len(secs) : secs[k].name = Backtrace}) = 1

C2_Witness ==
    /\ Processed
    /\ pushed.sections = <<Notes, Stage>>
    /\ pushed.errors = <<[error |-> FileNotFound, location |-> None],
                         [error |-> InitializationFailed, location |-> None]>>
    /\ Len(Unwrap(sections)) = 4

\* the section process placed last
BacktraceSection == Unwrap(sections)[Len(Unwrap(sections))]

\* a frame entry carries a location; a file header and a spacer carry none
IsFrameEntry(e) == IsSome(e.prefix_left)
FrameEntries(section) == SelectSeq(section.entries, IsFrameEntry)

\* the symbols of the capture no filter matcher matches, in capture order
Unfiltered(sym) ==
    ~\E matcher \in Unwrap(processor).filter : matches(new_value(sym.name), matcher)
Survivors == SelectSeq(audit.backtrace, Unfiltered)

\* the entry a symbol yields once parsed, marked and rewritten
FrameEntryOf(sym) ==
    build(declutter(ProcessingEntry_new(sym, create_error_section(audit).errors),
                    Unwrap(processor)))

(***************************************************************************)
(* C3: every symbol of the resolved capture that no filter matcher matches *)
(* is exactly one frame entry of the Backtrace section, and the frame      *)
(* entries are in capture order: none lost (the last contiguous run of a   *)
(* file included), none duplicated.                                        *)
(***************************************************************************)
C3_EveryFrameOnce ==
    Processed =>
        FrameEntries(BacktraceSection)
            = [k \in 1..Len(Survivors) |-> FrameEntryOf(Survivors[k])]

(***************************************************************************)
(* Reference notions for the symbol parser.                                *)
(***************************************************************************)
\* p occurs in s at index i
Occurs(s, p, i) == i >= 1 /\ i + Len(p) - 1 <= Len(s) /\ SubSeq(s, i, i + Len(p) - 1) = p
Contains(s, p) == \E i \in 1..Len(s) : Occurs(s, p, i)
FirstOcc(s, p) ==
    CHOOSE i \in 1..Len(s) : Occurs(s, p, i) /\ \A k \in 1..(i - 1) : ~Occurs(s, p, k)
LastOcc(s, p) ==
    CHOOSE i \in 1..Len(s) : Occurs(s, p, i) /\ \A k \in (i + 1)..Len(s) : ~Occurs(s, p, k)
BeforeFirst(s, p) == SubSeq(s, 1, FirstOcc(s, p) - 1)
AfterFirst(s, p) == SubSeq(s, FirstOcc(s, p) + Len(p), Len(s))

\* the name without the text from its last "::" to its end
RefStripped(name) ==
    IF Contains(name, ColonColon) THEN SubSeq(name, 1, LastOcc(name, ColonColon) - 1)
    ELSE name

\* the module and the remainder of a side: split at the first "::"
RefModule(side) ==
    IF Contains(side, ColonColon) THEN Some(BeforeFirst(side, ColonColon)) ELSE None
RefRemainder(side) ==
    IF Contains(side, ColonColon) THEN AfterFirst(side, ColonColon) ELSE side

\* the bracket depth after the first j characters of v
CountOf(v, ch, j) == Cardinality({i \in 1..j : v[i] = ch})
DepthAt(v, j) == CountOf(v, "<", j) - CountOf(v, ">", j)
HasMatch(v) == \E j \in 1..Len(v) : DepthAt(v, j) = 0
\* the position of the ">" that matches the first "<"
MatchPos(v) ==
    CHOOSE j \in 1..Len(v) : DepthAt(v, j) = 0 /\ \A k \in 1..(j - 1) : DepthAt(v, k) # 0
Inner(v) == SubSeq(v, 2, MatchPos(v) - 1)
AfterMatch(v) == SubSeq(v, MatchPos(v) + 1, Len(v))

Parsed == IsSome(symbol) /\ IsSome(entry)
HasName == IsSome(symbol) /\ IsSome(Unwrap(symbol))
Name == Unwrap(Unwrap(symbol))

(***************************************************************************)
(* C4: a hash-stripped name that starts with "<" and whose text between    *)
(* the first "<" and its depth-matching ">" contains " as " parses to a    *)
(* Cast: the inner text is split at the first " as ", each side at its     *)
(* first "::" into module and remainder, and value is the remainder of the *)
(* to-side followed by everything after the matching ">".                  *)
(* "<A::b as C::d>::e" gives Cast{A, b, C, d::e}.                          *)
(***************************************************************************)
C4_CastParse ==
    (Parsed /\ HasName) =>
        LET v == RefStripped(Name)
        IN  /\ (/\ starts_with(v, <<"<">>)
                /\ HasMatch(v)
                /\ Contains(Inner(v), As))
               => Unwrap(entry) =
                      [kind |-> "Cast",
                       from_module |-> RefModule(BeforeFirst(Inner(v), As)),
                       from |-> RefRemainder(BeforeFirst(Inner(v), As)),
                       module |-> RefModule(AfterFirst(Inner(v), As)),
                       value |-> RefRemainder(AfterFirst(Inner(v), As)) \o AfterMatch(v)]
            /\ Name = ExampleCast
               => Unwrap(entry) =
                      [kind |-> "Cast",
                       from_module |-> Some(<<"A">>), from |-> <<"b">>,
                       module |-> Some(<<"C">>), value |-> <<"d", ":", ":", "e">>]

C4_Witness ==
    /\ Parsed /\ HasName
    /\ Name = ExampleCast
    /\ Unwrap(entry).kind = "Cast"

(***************************************************************************)
(* C5: strip_hash removes exactly the text from the last "::" to the end   *)
(* (nothing when there is no "::"); a stripped name that does not start    *)
(* with "<" is split at its first "::" into module and value.              *)
(* "mod::sub::func::h" gives Plain{mod, sub::func}, "a::h" Plain{none, a}. *)
(***************************************************************************)
C5_HashStripThenPlain ==
    (Parsed /\ HasName) =>
        LET v == RefStripped(Name)
        IN  /\ strip_hash(Name) = v
            /\ ~starts_with(v, <<"<">>)
               => Unwrap(entry) =
                      [kind |-> "Entry", module |-> RefModule(v), value |-> RefRemainder(v)]
            /\ Name = ExamplePlain
               => Unwrap(entry) =
                      [kind |-> "Entry", module |-> Some(<<"m", "o", "d">>),
                       value |-> <<"s", "u", "b", ":", ":", "f", "u", "n", "c">>]
            /\ Name = ExampleShort
               => Unwrap(entry) = [kind |-> "Entry", module |-> None, value |-> <<"a">>]

C5_Witness ==
    /\ Parsed /\ HasName
    /\ Name = ExamplePlain
    /\ Unwrap(entry).kind = "Entry"

(***************************************************************************)
(* C6: the parser is total: every optional name (empty, unbalanced in      *)
(* "<" and ">", bracketed without " as ", closed early by the ">" of       *)
(* "->") yields Plain, Cast or Unknown; the bracket depth never goes below *)
(* zero; an absent name yields Unknown.                                    *)
(***************************************************************************)
C6_ParserTotal ==
    Parsed =>
        /\ Unwrap(entry).kind \in {"Entry", "Cast", "Unknown"}
        /\ ~HasName => Unwrap(entry) = Unknown
        \* the scan runs on the names that start with "<"
        /\ (HasName /\ starts_with(strip_hash(Name), <<"<">>)) =>
               LET states == scan_states(strip_hash(Name))
               IN  \A i \in 1..Len(states) : states[i].depth >= 0

C6_Witness ==
    /\ Parsed /\ HasName
    /\ Name = ExampleArrow
    /\ Unwrap(entry) = Unknown
    /\ scan_loop(scan_init, strip_hash(Name)).outside

Measured == IsSome(text) /\ IsSome(length)

(***************************************************************************)
(* C7: get_length(text) is the number of characters of text outside every  *)
(* escape sequence, a sequence running from an ESC through the next "m"    *)
(* (or to the end of the text); so it is the character count of a text     *)
(* without ESC, and get_length("\x1b[31mhi\x1b[0m") = 2.                   *)
(***************************************************************************)
C7_VisibleLength ==
    Measured =>
        LET t == Unwrap(text)
        IN  /\ Unwrap(length) = Cardinality(VisibleIndices(t))
            /\ (\A i \in 1..Len(t) : t[i] # "ESC") => Unwrap(length) = Len(t)
            /\ t = ExampleColored => Unwrap(length) = 2

C7_Witness ==
    /\ Measured
    /\ Unwrap(text) = ExampleColored
    /\ Unwrap(length) = 2

(***************************************************************************)
(* Reference notions for the alignment engine.                             *)
(***************************************************************************)
Aligned == IsSome(call) /\ IsSome(aligned)
LineBuilt == Aligned /\ IsSome(Unwrap(aligned).line)

RECURSIVE SumWidths(_)
SumWidths(entries) ==
    IF Len(entries) = 0 THEN 0 ELSE Head(entries).width + SumWidths(Tail(entries))

Min(a, b) == IF a < b THEN a ELSE b

\* every escape sequence of t ends inside t
Closed(t) == \A j \in 1..Len(t) : t[j] = "ESC" => \E k \in (j + 1)..Len(t) : t[k] = "m"

NoOverflow(entries) ==
    \A i \in 1..Len(entries) : get_length(entries[i].text) <= entries[i].width

\* the statement of C8 for the entries of the call
WidthsPlusDebt ==
    LET c == Unwrap(call)
        line == Unwrap(Unwrap(aligned).line)
    IN  /\ get_length(line) = SumWidths(c.entries) + Unwrap(aligned).offset
        /\ NoOverflow(c.entries) => get_length(line) = SumWidths(c.entries)

(***************************************************************************)
(* C8 as claimed: for every entry list, the visible length of the line     *)
(* align builds is the sum of the widths plus the debt left after the last *)
(* entry, and the sum of the widths when no entry overflows.               *)
(***************************************************************************)
C8_Original == LineBuilt => WidthsPlusDebt

(***************************************************************************)
(* C8, amended: the same, for every entry list in which no text ends       *)
(* inside an escape sequence.                                              *)
(***************************************************************************)
C8_LineLength ==
    (LineBuilt /\ \A i \in 1..Len(Unwrap(call).entries) : Closed(Unwrap(call).entries[i].text))
        => WidthsPlusDebt

C8_Witness ==
    /\ LineBuilt
    /\ Len(Unwrap(call).entries) = 2
    /\ \A i \in 1..2 : Closed(Unwrap(call).entries[i].text)
    /\ Unwrap(aligned).offset = 1
    /\ Len(Unwrap(Unwrap(aligned).line)) > get_length(Unwrap(Unwrap(aligned).line))
    /\ get_length(Unwrap(Unwrap(aligned).line)) = 4

(***************************************************************************)
(* C9: the debt starts at 0, grows by length - width on an overflowing     *)
(* entry and goes down by min(offset, width - length) on any other; after  *)
(* every entry offset >= 0, the padding emitted is (width - length) -      *)
(* min(offset, width - length) >= 0, and no subtraction underflows.        *)
(***************************************************************************)
C9_DebtAccounting ==
    Aligned =>
        LET c == Unwrap(call)
            states == align_states(c)
        IN  \A i \in 1..Len(states) :
                LET prev == IF i = 1 THEN align_init ELSE states[i - 1]
                    cur == states[i]
                    len == get_length(c.entries[i].text)
                    width == c.entries[i].width
                IN  /\ ~cur.underflow
                    /\ ~prev.panicked =>
                           /\ cur.offset >= 0
                           /\ len > width => cur.offset = prev.offset + (len - width)
                           /\ len <= width =>
                                  /\ cur.offset = prev.offset - Min(prev.offset, width - len)
                                  /\ cur.padding_size
                                         = (width - len) - Min(prev.offset, width - len)
                                  /\ cur.padding_size >= 0
                                  /\ ~cur.panicked =>
                                         Len(cur.line)
                                             = Len(prev.line) + Len(c.entries[i].text)
                                               + cur.padding_size

C9_Witness ==
    /\ Aligned
    /\ Len(Unwrap(call).entries) = 2
    /\ LET states == align_states(Unwrap(call))
       IN  /\ states[1].offset = 2
           /\ states[2].offset = 1
           /\ states[2].padding_size = 0
           /\ ~states[2].panicked
           /\ get_length(Unwrap(call).entries[2].text) < Unwrap(call).entries[2].width

\* every string handed to the sink is at most max_width wide
ChunksFit ==
    \A k \in 1..Len(Unwrap(aligned).chunks) :
        get_length(Unwrap(aligned).chunks[k]) <= Unwrap(call).max_width

(***************************************************************************)
(* C10 as claimed: for every max_width >= 0, when the line is wrapped      *)
(* every string handed to the sink has visible length <= max_width.        *)
(***************************************************************************)
C10_Original == (Aligned /\ Unwrap(aligned).wrapped) => ChunksFit

(***************************************************************************)
(* C10, amended: the same for every max_width >= 1.                        *)
(***************************************************************************)
C10_ChunksFit ==
    (Aligned /\ Unwrap(aligned).wrapped /\ Unwrap(call).max_width >= 1) => ChunksFit

C10_Witness ==
    /\ Aligned
    /\ Unwrap(aligned).wrapped
    /\ Unwrap(call).max_width = 2
    /\ Unwrap(aligned).result = "Ok"
    /\ Len(Unwrap(aligned).chunks) = 3
    /\ \E k \in 1..3 : Len(Unwrap(aligned).chunks[k]) > 2

(***************************************************************************)
(* C11: the strings align hands to the sink, concatenated in order with    *)
(* their escape sequences, are the line built before wrapping (a leading   *)
(* part of it when the sink stops the call with an error); a line whose    *)
(* visible length is at most max_width goes to the sink once, unchanged,   *)
(* the empty line of an empty entry list included.                         *)
(***************************************************************************)
C11_WrapRoundTrip ==
    LineBuilt =>
        LET c == Unwrap(call)
            r == Unwrap(aligned)
            line == Unwrap(r.line)
            handed == concat(r.chunks)
        IN  /\ Len(handed) <= Len(line) /\ handed = SubSeq(line, 1, Len(handed))
            /\ r.result = "Ok" => handed = line
            /\ (r.result = "Ok" /\ Cardinality(VisibleIndices(line)) <= c.max_width)
                   => r.chunks = <<line>>
            /\ (r.result = "Ok" /\ c.entries = <<>>) => r.chunks = <<(<<>>)>>

C11_Witness ==
    /\ LineBuilt
    /\ Unwrap(aligned).wrapped
    /\ Unwrap(aligned).result = "Ok"
    /\ Unwrap(call).max_width = 2
    /\ Len(Unwrap(aligned).chunks) = 2
    /\ Len(Unwrap(aligned).chunks[1]) = 4
    /\ Unwrap(aligned).chunks[2] = <<"x">>

(***************************************************************************)
(* Reference notions for the Backtrace section.                            *)
(***************************************************************************)
\* the positions of the frame entries in the Backtrace section
FramePositions ==
    {i \in 1..Len(BacktraceSection.entries) : IsFrameEntry(BacktraceSection.entries[i])}
NumFrames == Cardinality(FramePositions)

\* the frame entries are the entries of the first survivors, in capture order
FramesInCaptureOrder ==
    Processed =>
        /\ NumFrames <= Len(Survivors)
        /\ \A k \in 1..NumFrames :
               BacktraceSection.entries[Nth(FramePositions, k)] = FrameEntryOf(Survivors[k])

\* survivor k appears in the section, at position PosOf(k)
Appears(k) == k <= NumFrames
PosOf(k) == Nth(FramePositions, k)

\* a header entry has no location and a text; a spacer has neither
IsHeader(e) == ~IsFrameEntry(e) /\ Len(e.text) > 0
IsSpacer(e) == ~IsFrameEntry(e) /\ Len(e.text) = 0

\* the position of the header a position is listed under
HeaderOf(pos) ==
    CHOOSE j \in 1..pos :
        /\ IsHeader(BacktraceSection.entries[j])
        /\ \A i \in (j + 1)..pos : ~IsHeader(BacktraceSection.entries[i])

\* the header text of the file of a symbol
HeaderText(sym) ==
    LET path == ReporterFile_new(sym.filename, <<>>, Unwrap(processor)).path
    IN  IF IsSome(path) THEN bold(white(path_to_str(Unwrap(path)))) ELSE UNKNOWN

\* survivors k and k + 1 are of the same file and both in the section
AdjacentSameFile(k) ==
    /\ Survivors[k].filename = Survivors[k + 1].filename
    /\ Appears(k + 1)

SurvivorIndices == {i \in 1..Len(audit.backtrace) : Unfiltered(audit.backtrace[i])}
SurvivorIndex(k) == Nth(SurvivorIndices, k)

\* capture index i opens a contiguous run of one file
OpensRun(i) == i = 1 \/ audit.backtrace[i].filename # audit.backtrace[i - 1].filename

\* survivor k is the first survivor of its run
FirstOfRun(k) ==
    \/ k = 1
    \/ \E i \in (SurvivorIndex(k - 1) + 1)..SurvivorIndex(k) : OpensRun(i)

\* the runs of the capture that hold a survivor, by their opening index
RunOf(i) == CHOOSE j \in 1..i : OpensRun(j) /\ \A h \in (j + 1)..i : ~OpensRun(h)
SurvivingRuns == {RunOf(i) : i \in SurvivorIndices}

(***************************************************************************)
(* C13: the frame entries of the Backtrace section are entries of frames   *)
(* no filter matcher matches, in capture order; a filtered frame opens no  *)
(* group (a frame entry right under a header is the first unfiltered frame *)
(* of its file group); a group whose frames are all filtered gives neither *)
(* a header nor a spacer: there are at most as many headers as groups with *)
(* an unfiltered frame, every header is followed by a frame entry, every   *)
(* spacer lies between a frame entry and a header, and a capture whose     *)
(* frames are all filtered gives an empty section.                         *)
(***************************************************************************)
C13_FilteredNeverShown ==
    Processed =>
        LET es == BacktraceSection.entries
            headers == {i \in 1..Len(es) : IsHeader(es[i])}
        IN  /\ NumFrames <= Len(Survivors)
            /\ \A k \in 1..NumFrames : es[PosOf(k)] = FrameEntryOf(Survivors[k])
            /\ \A k \in 1..NumFrames : IsHeader(es[PosOf(k) - 1]) => FirstOfRun(k)
            /\ Cardinality(headers) <= Cardinality(SurvivingRuns)
            /\ Len(es) > 0 => IsHeader(es[1])
            /\ \A i \in 1..Len(es) :
                   /\ IsHeader(es[i]) => (i < Len(es) /\ IsFrameEntry(es[i + 1]))
                   /\ IsSpacer(es[i]) =>
                          /\ i > 1 /\ IsFrameEntry(es[i - 1])
                          /\ i < Len(es) /\ IsHeader(es[i + 1])
            /\ Survivors = <<>> => es = <<>>

C13_Witness ==
    /\ Processed
    /\ Len(audit.backtrace) = 3
    /\ ~Unfiltered(audit.backtrace[1])
    /\ Unfiltered(audit.backtrace[2])
    /\ audit.backtrace[2].filename # audit.backtrace[1].filename
    /\ audit.backtrace[3].filename # audit.backtrace[2].filename
    /\ Len(BacktraceSection.entries) = 2
    /\ BacktraceSection.entries[1].text = HeaderText(audit.backtrace[2])
    /\ BacktraceSection.entries[2] = FrameEntryOf(audit.backtrace[2])

(***************************************************************************)
(* Reference notions for the wrap methods.                                 *)
(***************************************************************************)
Wrapped == IsSome(wrapcall) /\ IsSome(result)

\* the display texts of the causes an Err holds, by index
CauseTextsOf(r) ==
    [i \in 1..Len(causes(r)) |->
        IF r.ty = ResultAudit THEN causes(r)[i].error ELSE causes(r)[i]]

\* a sequence without its i-th element
RemoveAt(q, i) == SubSeq(q, 1, i - 1) \o SubSeq(q, i + 1, Len(q))

(***************************************************************************)
(* C14: a wrap, wrap_err or wrap_err_with call on an Ok or a Some returns  *)
(* Ok of the same value and runs neither the closure nor the producer; on  *)
(* an Err holding an Audit or a Report, wrap_err adds exactly one cause    *)
(* and keeps the others as they were, in their order; on an Err of a plain *)
(* error the result holds that error and the added cause, the plain error  *)
(* as the root (last) cause in the Audit API; on None it holds the added   *)
(* cause only.  In the Audit API the added cause is index 0.               *)
(***************************************************************************)
C14_WrapContract ==
    Wrapped =>
        LET c == Unwrap(wrapcall)
            before == c.self
            after == Unwrap(result)
            old == causes(before)
            new == causes(after)
            texts == CauseTextsOf(after)
        IN  /\ after.ok = before.ok
            /\ before.ok => (after.value = before.value /\ ~c.ran)
            /\ (~before.ok /\ IsSome(c.err)) =>
                   LET err == Unwrap(c.err)
                   IN  /\ before.ty \in {ResultAudit, ResultReport} =>
                              /\ Len(new) = Len(old) + 1
                              /\ \E i \in 1..Len(new) :
                                     texts[i] = err /\ RemoveAt(new, i) = old
                       /\ before.ty = ResultPlain =>
                              /\ Len(new) = 2
                              /\ \E i, j \in 1..2 :
                                     i # j /\ texts[i] = before.value /\ texts[j] = err
                              /\ after.ty = ResultAudit => texts[2] = before.value
                       /\ before.ty = OptionT => texts = <<err>>
                       /\ after.ty = ResultAudit =>
                              /\ texts[1] = err
                              /\ before.ty = ResultAudit => Tail(new) = old

C14_Witness ==
    /\ Wrapped
    /\ Unwrap(wrapcall).method = "wrap_err_with"
    /\ Unwrap(wrapcall).ran
    /\ Unwrap(wrapcall).self.ty = ResultAudit
    /\ CauseTextsOf(Unwrap(wrapcall).self) = <<InitializationFailed, FileNotFound>>
    /\ CauseTextsOf(Unwrap(result))
           = <<FileNotFound, InitializationFailed, FileNotFound>>

\* C15: rendering has one failure mode.  format returns Ok when every write
\* succeeds, whatever the widths and the lengths of name, prefix, suffix and
\* text (it never panics); when a write fails it returns that error and the
\* output holds exactly the lines written before the failing write.
C15_OneFailureMode ==
    IsSome(rendered) =>
        LET r == Unwrap(rendered)
            fail_on == Unwrap(render).env.fail_on
        IN  /\ r.result \in {"Ok", "Err"}
            /\ fail_on = 0 => r.result = "Ok"
            /\ r.result = "Err" => fail_on # 0 /\ Len(r.lines) = fail_on - 1

(***************************************************************************)
(* Reference notions for the merge of file groups.                         *)
(***************************************************************************)
\* some collapse matcher matches the parsed value of the symbol
Collapsible(sym) ==
    \E matcher \in Unwrap(processor).collapse : matches(new_value(sym.name), matcher)

\* the non-empty file groups in capture order: group j, by its opening index
NumGroups == Cardinality(SurvivingRuns)
GroupAt(j) == Nth(SurvivingRuns, j)

\* the survivors of group j, its first survivor and its file identity
GroupSurvivors(j) ==
    {k \in 1..Len(Survivors) : RunOf(SurvivorIndex(k)) = GroupAt(j)}
FirstSurvivor(j) == CHOOSE k \in GroupSurvivors(j) : \A h \in GroupSurvivors(j) : k <= h
GroupPath(j) ==
    ReporterFile_new(audit.backtrace[GroupAt(j)].filename, <<>>, Unwrap(processor)).path
AllCollapsible(j) == \A k \in GroupSurvivors(j) : Collapsible(Survivors[k])

\* the merge rule: the kept group that group j ends up in
RECURSIVE KeptGroupOf(_)
KeptGroupOf(j) ==
    IF j = 1 THEN 1
    ELSE LET last == KeptGroupOf(j - 1)
         IN  IF GroupPath(j) = GroupPath(last) \/ AllCollapsible(j) THEN last ELSE j

\* group j is laid out as the rule says: every frame of it is a frame entry;
\* a kept group opens with the header of its own file, an appended group
\* follows the frame entries before it with no header and no spacer
LaidOutByRule(j) ==
    LET es == BacktraceSection.entries
        first == FirstSurvivor(j)
    IN  /\ \A k \in GroupSurvivors(j) :
               Appears(k) /\ es[PosOf(k)] = FrameEntryOf(Survivors[k])
        /\ PosOf(first) > 1
        /\ IF KeptGroupOf(j) = j
           THEN /\ IsHeader(es[PosOf(first) - 1])
                /\ es[PosOf(first) - 1].text = HeaderText(audit.backtrace[GroupAt(j)])
           ELSE IsFrameEntry(es[PosOf(first) - 1])

\* group j is the last contiguous run of the capture
IsLastRun(j) == GroupAt(j) = RunOf(Len(audit.backtrace))

(***************************************************************************)
(* C16: walking the non-empty file groups in capture order, a group is     *)
(* appended to the immediately preceding kept group if and only if such a  *)
(* group exists and its file identity equals that group's or every         *)
(* surviving frame of it is collapsible; otherwise it is kept as a new     *)
(* group under its own header.  The first group is never merged.           *)
(***************************************************************************)
C16_GroupMergeRule ==
    Processed => \A j \in 1..NumGroups : LaidOutByRule(j)

\* the rule holds of every group but the last contiguous run of the capture
C16_RuleBeforeLastRun ==
    Processed => \A j \in 1..NumGroups : ~IsLastRun(j) => LaidOutByRule(j)

(***************************************************************************)
(* Reference notions for the frame in the 'entry loop.                     *)
(***************************************************************************)
InLoop == IsSome(frame)
Pc == Unwrap(frame).pc
ParsedValue == Unwrap(frame).parsed
CurrentValue == Unwrap(frame).entry.value
Pairs == Unwrap(processor).replace
Styled(pair) == style(pair.to, Unwrap(processor).replace_style)

\* some matcher of the set matches the value
AnyMatches(matchers, v) == \E matcher \in matchers : matches(v, matcher)

\* the first n pairs applied in list order, each to the text of the one before
RECURSIVE AppliedInOrder(_)
AppliedInOrder(n) ==
    IF n = 0 THEN ParsedValue
    ELSE replace(AppliedInOrder(n - 1), Pairs[n].matcher, Styled(Pairs[n]))

(***************************************************************************)
(* C17: for every frame the filter check runs first, then the collapse     *)
(* marking, then the replacement.  Until the filter check has passed       *)
(* nothing is marked or replaced, and a frame a filter matcher matches is  *)
(* skipped untouched; the collapsible flag is decided on the parser's text *)
(* before any pair is applied (true iff some collapse matcher matches that *)
(* text) and no pair changes it; the pairs are applied in list order, each *)
(* to the text the previous one produced, and the frame is pushed after    *)
(* the last of them.                                                       *)
(***************************************************************************)
C17_PipelineOrder ==
    InLoop =>
        LET f == Unwrap(frame)
            proc == Unwrap(processor)
        IN  /\ Pc \in {"filter", "collapse", "skipped"} =>
                   f.k = 0 /\ CurrentValue = ParsedValue /\ ~f.entry.collapsable
            /\ Pc = "skipped" => AnyMatches(proc.filter, ParsedValue)
            /\ Pc \in {"collapse", "replace", "pushed"} => ~AnyMatches(proc.filter, ParsedValue)
            /\ Pc \in {"replace", "pushed"} =>
                   /\ f.entry.collapsable = AnyMatches(proc.collapse, ParsedValue)
                   /\ f.k <= Len(Pairs)
                   /\ CurrentValue = AppliedInOrder(f.k)
            /\ Pc = "pushed" => f.k = Len(Pairs)

\* a pushed frame marked on the parser's text, which the first pair rewrote
\* into a text no collapse matcher matches and the second pair rewrote again
C17_Witness ==
    /\ InLoop /\ Pc = "pushed"
    /\ Unwrap(frame).k = 2
    /\ Unwrap(frame).entry.collapsable
    /\ ~AnyMatches(Unwrap(processor).collapse, CurrentValue)
    /\ Unwrap(frame).before # ParsedValue
    /\ CurrentValue # Unwrap(frame).before
    /\ CurrentValue # replace(ParsedValue, Pairs[2].matcher, Styled(Pairs[2]))

\* no configured matcher, of the filter, the collapse or the replace list,
\* matches the parser's value
Unmatched ==
    /\ ~AnyMatches(Unwrap(processor).filter, ParsedValue)
    /\ ~AnyMatches(Unwrap(processor).collapse, ParsedValue)
    /\ \A n \in 1..Len(Pairs) : ~matches(ParsedValue, Pairs[n].matcher)

(***************************************************************************)
(* C18: a frame none of the configured filter, collapse and replace        *)
(* matchers matches (by ProcessingValue::matches) is pushed with its       *)
(* module, from_module, from and value as the parser gave them and with    *)
(* collapsible = false; an Unknown value is never changed.                 *)
(***************************************************************************)
C18_UnmatchedUnchanged ==
    (InLoop /\ Pc = "pushed") =>
        /\ Unmatched => CurrentValue = ParsedValue /\ ~Unwrap(frame).entry.collapsable
        /\ ParsedValue = Unknown => CurrentValue = Unknown

\* the pair applied last, the value it was applied to and the value it gave
Replaced == InLoop /\ Unwrap(frame).k > 0
LastPair == Pairs[Unwrap(frame).k]
Before == Unwrap(frame).before

\* t with its leading p replaced, when t starts with p
LeadingReplaced(t, p, to) == IF starts_with(t, p) THEN to \o Drop(t, Len(p)) ELSE t

\* t with the first of its "::"-separated segments equal to p replaced
FirstSegmentReplaced(t, p, to) ==
    LET segs == split(t, ColonColon)
        hits == {i \in 1..Len(segs) : segs[i] = p}
    IN  IF hits = {} THEN t
        ELSE join([i \in 1..Len(segs) |->
                      IF i = Nth(hits, 1) THEN to ELSE segs[i]], ColonColon)

(***************************************************************************)
(* C19: a replace pair with an Item matcher changes a text only when the   *)
(* text starts with the pattern, and replaces that leading occurrence      *)
(* only; a pair with a Path matcher changes the value only when one of its *)
(* "::"-separated segments equals the pattern, and replaces the first such *)
(* segment only: no later one, and nothing inside a longer segment.        *)
(***************************************************************************)
C19_PrefixAndSegment ==
    (Replaced /\ Before # Unknown) =>
        LET p == LastPair.matcher.pat
            to == Styled(LastPair)
        IN  /\ LastPair.matcher.kind = "Item" =>
                   /\ CurrentValue.value = LeadingReplaced(Before.value, p, to)
                   /\ Before.kind = "Cast" =>
                          CurrentValue.from = LeadingReplaced(Before.from, p, to)
            /\ LastPair.matcher.kind = "Path" =>
                   CurrentValue.value = FirstSegmentReplaced(Before.value, p, to)

\* a module field rewritten when, and only when, it is the pattern
ModuleReplaced(module, p, to) == IF module = Some(p) THEN Some(to) ELSE module

(***************************************************************************)
(* C20: a Module(t) matcher of the filter or the collapse set matches a    *)
(* Plain value iff its module is t and a Cast value iff its destination    *)
(* module is t, whatever the from_module; a replace pair with a Module(t)  *)
(* matcher looks at the from_module and the module of a Cast each on its   *)
(* own and rewrites a module field only when the field is t exactly.       *)
(***************************************************************************)
C20_ModuleSemantics ==
    InLoop =>
        /\ \A matcher \in Unwrap(processor).filter \cup Unwrap(processor).collapse :
               matcher.kind = "Module" =>
                   (matches(ParsedValue, matcher)
                       <=> (ParsedValue # Unknown /\ ParsedValue.module = Some(matcher.pat)))
        /\ (Replaced /\ Before # Unknown /\ LastPair.matcher.kind = "Module") =>
               LET p == LastPair.matcher.pat
                   to == Styled(LastPair)
               IN  /\ CurrentValue.module = ModuleReplaced(Before.module, p, to)
                   /\ Before.kind = "Cast" =>
                          CurrentValue.from_module = ModuleReplaced(Before.from_module, p, to)

(***************************************************************************)
(* Reference notions for the correlation of frames and causes.             *)
(***************************************************************************)
\* the identity key of a symbol: its raw name and its file
KeyOf(sym) == <<sym.name, sym.filename>>

\* the indices (from 0) of the causes whose capture location resolves to a
\* symbol of the key of sym
CauseIndices(sym) ==
    {i \in 0..(Len(audit.errors) - 1) :
        /\ IsSome(audit.errors[i + 1].location)
        /\ \E n \in 1..Len(Unwrap(audit.errors[i + 1].location)) :
               KeyOf(Unwrap(audit.errors[i + 1].location)[n]) = KeyOf(sym)}

\* "E{i} E{j} ..." for the indices of S in ascending order, each once
RECURSIVE Labels(_)
Labels(S) ==
    IF S = {} THEN <<>>
    ELSE LET i == CHOOSE x \in S : \A y \in S : x <= y
         IN  <<"E">> \o Decimal(i)
             \o (IF S = {i} THEN <<>> ELSE <<" ">> \o Labels(S \ {i}))

Resolutions(i, sym) ==
    IF IsSome(audit.errors[i + 1].location)
    THEN Cardinality({n \in 1..Len(Unwrap(audit.errors[i + 1].location)) :
             KeyOf(Unwrap(audit.errors[i + 1].location)[n]) = KeyOf(sym)})
    ELSE 0

\* "E{i}" n times, joined by spaces
RECURSIVE LabelTimes(_, _)
LabelTimes(i, n) ==
    IF n = 0 THEN <<>>
    ELSE <<"E">> \o Decimal(i) \o (IF n = 1 THEN <<>> ELSE <<" ">> \o LabelTimes(i, n - 1))

\* the labels of the indices of S in ascending order, the label of a cause
\* once per symbol of the key of sym that its location resolves to
RECURSIVE LabelsPerSymbol(_, _)
LabelsPerSymbol(S, sym) ==
    IF S = {} THEN <<>>
    ELSE LET i == CHOOSE x \in S : \A y \in S : x <= y
         IN  LabelTimes(i, Resolutions(i, sym))
             \o (IF S = {i} THEN <<>> ELSE <<" ">> \o LabelsPerSymbol(S \ {i}, sym))

\* C21 with each index listed once per resolved symbol instead of once
C21_OncePerSymbol ==
    Processed =>
        \A k \in 1..NumFrames :
            LET e == BacktraceSection.entries[PosOf(k)]
                ids == CauseIndices(Survivors[k])
            IN  /\ IsSome(e.prefix) <=> ids # {}
                /\ IsSome(e.prefix) =>
                       VisibleText(Unwrap(e.prefix)) = LabelsPerSymbol(ids, Survivors[k])


(***************************************************************************)
(* Reference notions for the fields of a frame entry.                      *)
(***************************************************************************)
\* survivor k once parsed, correlated, marked and rewritten
FrameOf(k) ==
    declutter(ProcessingEntry_new(Survivors[k], create_error_section(audit).errors),
              Unwrap(processor))

\* a line or column number as text, "???" when it is missing
NumberOrUnknown(n) == IF IsSome(n) THEN Decimal(Unwrap(n)) ELSE <<"?", "?", "?">>

\* what an optional text shows
Shown(t) == IF IsSome(t) THEN Some(VisibleText(Unwrap(t))) ELSE None

\* the fields of the entry at position PosOf(k) other than the one that
\* carries the correlation string
LocationModuleText(k) ==
    LET e == BacktraceSection.entries[PosOf(k)]
        f == FrameOf(k)
    IN  /\ Shown(e.prefix_left)
               = Some(NumberOrUnknown(f.line) \o <<":">> \o NumberOrUnknown(f.character))
        /\ Shown(e.prefix_right)
               = (IF f.value.kind = "Unknown" THEN None ELSE Shown(f.value.module))
        /\ VisibleText(e.text)
               = (CASE f.value.kind = "Entry" -> VisibleText(f.value.value)
                    [] f.value.kind = "Cast" ->
                           VisibleText(f.value.from) \o <<" ", "-", ">", " ">>
                               \o VisibleText(f.value.value)
                    [] f.value.kind = "Unknown" -> <<"?", "?", "?">>)

(***************************************************************************)
(* C22 as stated: every frame entry of the Backtrace section has           *)
(* prefix_left "{line}:{col}" with "???" for a missing line or column,     *)
(* prefix_right the (destination) module if any, text the value            *)
(* ("{from} -> {value}" for a Cast, "???" for Unknown) and suffix the      *)
(* frame's correlation string when it has one, no suffix otherwise.        *)
(***************************************************************************)
C22_Original ==
    Processed =>
        \A k \in 1..NumFrames :
            /\ LocationModuleText(k)
            /\ BacktraceSection.entries[PosOf(k)].suffix = FrameOf(k).errors

(***************************************************************************)
(* C22, amended: every frame entry of the Backtrace section has            *)
(* prefix_left "{line}:{col}" with "???" for a missing line or column,     *)
(* prefix_right the (destination) module if any, text the value            *)
(* ("{from} -> {value}" for a Cast, "???" for Unknown) and prefix the      *)
(* frame's correlation string when it has one, no prefix otherwise; its    *)
(* suffix is never set.                                                    *)
(***************************************************************************)
C22_FrameEntryFields ==
    Processed =>
        \A k \in 1..NumFrames :
            /\ LocationModuleText(k)
            /\ BacktraceSection.entries[PosOf(k)].prefix = FrameOf(k).errors
            /\ BacktraceSection.entries[PosOf(k)].suffix = None

\* a section with a correlated frame, an Unknown frame without line and
\* column and a Cast frame without column
C22_Witness ==
    /\ Processed
    /\ \E k \in 1..NumFrames : IsSome(BacktraceSection.entries[PosOf(k)].prefix)
    /\ \E k \in 1..NumFrames :
           /\ FrameOf(k).value.kind = "Unknown"
           /\ Shown(BacktraceSection.entries[PosOf(k)].prefix_left)
                  = Some(<<"?", "?", "?", ":", "?", "?", "?">>)
    /\ \E k \in 1..NumFrames :
           /\ FrameOf(k).value.kind = "Cast"
           /\ Shown(BacktraceSection.entries[PosOf(k)].prefix_left)
                  = Some(<<"7", ":", "?", "?", "?">>)
           /\ IsSome(BacktraceSection.entries[PosOf(k)].prefix_right)


(***************************************************************************)
(* Reference notions for the layout of the Backtrace section.              *)
(***************************************************************************)
\* the groups the merge loop kept, each with its surviving frames
KeptGroups ==
    kept_files(audit, create_error_section(audit).errors, Unwrap(processor))

\* the number of frames of the first g kept groups
RECURSIVE FramesUpTo(_)
FramesUpTo(g) == IF g = 0 THEN 0 ELSE FramesUpTo(g - 1) + Len(KeptGroups[g].entries)

\* where the header of kept group g is expected: after the headers, the
\* frames and the spacers of the groups before it
HeaderPos(g) == FramesUpTo(g - 1) + 2 * (g - 1) + 1

(***************************************************************************)
(* C23: for G >= 1 kept groups with F surviving frames in total the        *)
(* Backtrace section has exactly G + F + (G - 1) entries: per group one    *)
(* header entry followed by its frame entries, with exactly one blank      *)
(* spacer entry between consecutive groups; the section never ends with a  *)
(* spacer and never has two adjacent spacers; for G = 0 it has no entries. *)
(***************************************************************************)
C23_BacktraceLayout ==
    Processed =>
        LET G == Len(KeptGroups)
            F == FramesUpTo(G)
            es == BacktraceSection.entries
        IN  /\ G = 0 => Len(es) = 0
            /\ G >= 1 =>
                   /\ Len(es) = G + F + (G - 1)
                   /\ \A g \in 1..G :
                          /\ IsHeader(es[HeaderPos(g)])
                          /\ \A i \in 1..Len(KeptGroups[g].entries) :
                                 IsFrameEntry(es[HeaderPos(g) + i])
                          /\ g < G => IsSpacer(es[HeaderPos(g + 1) - 1])
                   /\ ~IsSpacer(es[Len(es)])
                   /\ \A i \in 1..(Len(es) - 1) : ~(IsSpacer(es[i]) /\ IsSpacer(es[i + 1]))

\* a section of three kept groups, one of them with two frames
C23_Witness ==
    /\ Processed
    /\ Len(KeptGroups) = 3
    /\ \E g \in 1..3 : Len(KeptGroups[g].entries) >= 2
    /\ Len(BacktraceSection.entries) = 3 + FramesUpTo(3) + 2


(***************************************************************************)
(* Reference notions for the box a section is written in.                  *)
(***************************************************************************)
\* a rendering in bordered mode of sections whose names leave room for the
\* corners of the header
BorderedAndNamesFit ==
    /\ IsSome(rendered)
    /\ ~Unwrap(render).formatter.simple_section
    /\ \A i \in 1..Len(Unwrap(render).sections) :
           Len(VisibleText(Unwrap(render).sections[i].name)) + 6
               <= Unwrap(render).formatter.width

\* the lines written
Lines == Unwrap(rendered).lines

\* a header line starts with the top left corner, a footer line with the
\* bottom left one
IsBorderLine(line) ==
    Len(VisibleText(line)) > 0 /\ VisibleText(line)[1] \in {"TL", "BL"}

(***************************************************************************)
(* C24: in bordered mode, for every section whose name has visible length  *)
(* at most width - 6, the header line, the footer line and every row line  *)
(* written for every entry (each line of a wrapped entry and entries with  *)
(* a prefix or a suffix included) have visible length exactly width.       *)
(***************************************************************************)
C24_FixedWidthBox ==
    BorderedAndNamesFit =>
        \A i \in 1..Len(Lines) :
            Len(VisibleText(Lines[i])) = Unwrap(render).formatter.width

\* C24 for the header and footer lines alone
C24_HeaderAndFooter ==
    BorderedAndNamesFit =>
        \A i \in 1..Len(Lines) :
            IsBorderLine(Lines[i]) =>
                Len(VisibleText(Lines[i])) = Unwrap(render).formatter.width


(***************************************************************************)
(* Reference notions for the Center alignment.                             *)
(***************************************************************************)
\* the loop state of align before entry i
StateBefore(i) ==
    IF i = 1 THEN align_init ELSE align_states(Unwrap(call))[i - 1]

\* entry i is a Center entry the loop reaches, with room for padding
CenterPadded(i) ==
    /\ Unwrap(call).entries[i].alignment = "Center"
    /\ ~StateBefore(i).panicked
    /\ get_length(Unwrap(call).entries[i].text) <= Unwrap(call).entries[i].width

\* the padding that remains for entry i once the debt is paid
RemainingPadding(i) ==
    LET room == Unwrap(call).entries[i].width - get_length(Unwrap(call).entries[i].text)
    IN  room - Min(StateBefore(i).offset, room)

\* n pad characters
Pad(n) == [k \in 1..n |-> Unwrap(call).pad_char]

\* entry i is written with floor(p / 2) pad characters before its text and
\* the rest after it
CenteredAt(i) ==
    LET after == align_states(Unwrap(call))[i]
        p == RemainingPadding(i)
    IN  /\ ~after.panicked
        /\ after.line = StateBefore(i).line \o Pad(p \div 2)
                            \o Unwrap(call).entries[i].text \o Pad(p - p \div 2)

(***************************************************************************)
(* C25: Center alignment in align: for every pad character (single-byte or *)
(* multi-byte) and every remaining padding size p, exactly floor(p / 2)    *)
(* pad characters are placed before the text and p - floor(p / 2) after    *)
(* it, and the operation does not fail.                                    *)
(***************************************************************************)
C25_CenterSplit ==
    Aligned =>
        \A i \in 1..Len(Unwrap(call).entries) : CenterPadded(i) => CenteredAt(i)

\* C25 for a pad character of one byte, and for a multi-byte one when the
\* remaining padding is even
C25_SingleByteOrEven ==
    Aligned =>
        \A i \in 1..Len(Unwrap(call).entries) :
            (/\ CenterPadded(i)
             /\ \/ len_utf8(Unwrap(call).pad_char) = 1
                \/ RemainingPadding(i) % 2 = 0)
                => CenteredAt(i)


(***************************************************************************)
(* Reference notions for the chunks of a wrapped line.                     *)
(***************************************************************************)
Chunks == Unwrap(aligned).chunks

\* the number of characters of the first n chunks
RECURSIVE ChunkEnd(_)
ChunkEnd(n) == IF n = 0 THEN 0 ELSE ChunkEnd(n - 1) + Len(Chunks[n])

\* the chunk that holds character j of the line (0: none was handed it)
ChunkOf(j) ==
    IF j > ChunkEnd(Len(Chunks)) THEN 0
    ELSE CHOOSE n \in 1..Len(Chunks) : ChunkEnd(n - 1) < j /\ j <= ChunkEnd(n)

\* the index of the "m" that ends the escape sequence the ESC at j is in
\* (0: the sequence does not end in the line)
EndOfEscape(line, j) ==
    IF \E k \in (j + 1)..Len(line) : line[k] = "m"
    THEN CHOOSE k \in (j + 1)..Len(line) :
             line[k] = "m" /\ \A i \in (j + 1)..(k - 1) : line[i] # "m"
    ELSE 0

\* the visible lengths of the chunks, added up
RECURSIVE SumVisible(_)
SumVisible(n) ==
    IF n = 0 THEN 0 ELSE SumVisible(n - 1) + Cardinality(VisibleIndices(Chunks[n]))

\* a line that was wrapped into chunks of a positive width
WrappedPositive ==
    /\ LineBuilt
    /\ Unwrap(aligned).wrapped
    /\ Unwrap(call).max_width >= 1

(***************************************************************************)
(* C26: for max_width >= 1 the hard wrap of align never cuts inside an     *)
(* escape sequence (every ESC and the "m" that ends its sequence are in    *)
(* the same chunk), every chunk except the last has visible length exactly *)
(* max_width, and the visible lengths of the chunks add up to the visible  *)
(* length of the line before wrapping (once every chunk was handed over).  *)
(***************************************************************************)
C26_WrapKeepsEscapes ==
    WrappedPositive =>
        LET line == Unwrap(Unwrap(aligned).line)
        IN  /\ \A j \in 1..ChunkEnd(Len(Chunks)) :
                   (line[j] = "ESC" /\ EndOfEscape(line, j) # 0)
                       => ChunkOf(EndOfEscape(line, j)) = ChunkOf(j)
            /\ \A n \in 1..(Len(Chunks) - 1) :
                   Cardinality(VisibleIndices(Chunks[n])) = Unwrap(call).max_width
            /\ Unwrap(aligned).result = "Ok" =>
                   SumVisible(Len(Chunks)) = Cardinality(VisibleIndices(line))

\* a coloured line wrapped into three chunks, the first with an escape
\* sequence, the last shorter than max_width
C26_Witness ==
    /\ WrappedPositive
    /\ Unwrap(aligned).result = "Ok"
    /\ Unwrap(call).max_width = 2
    /\ Len(Chunks) = 3
    /\ \E j \in 1..Len(Chunks[1]) : Chunks[1][j] = "ESC"
    /\ Cardinality(VisibleIndices(Chunks[3])) = 1


(***************************************************************************)
(* Reference notions for the lines of one entry.                           *)
(***************************************************************************)
\* write_section_entry has returned (or panicked), no write having failed
RowDone ==
    IsSome(row) /\ Unwrap(row).pc = "done" /\ Unwrap(row).env.fail_on = 0

\* the lines written for the entry and the calls that wrote them
RowLines == Unwrap(row).st.w.lines
RowCalls == Unwrap(row).calls

\* the content width: the width less the borders and the side padding
ContentWidth ==
    Unwrap(row).formatter.width - 2 * Unwrap(row).formatter.side_padding - 2

\* the composed text is longer than the content width
Exceeds == Cardinality(VisibleIndices(Unwrap(row).text)) > ContentWidth

\* the texts of the first n calls, one after the other
RECURSIVE TextsUpTo(_)
TextsUpTo(n) == IF n = 0 THEN <<>> ELSE TextsUpTo(n - 1) \o RowCalls[n].t

\* an optional prefix or suffix shows in a line
ShowsIn(line, opt) ==
    IsSome(opt) => Contains(VisibleText(line), VisibleText(Unwrap(opt)))

\* the statement of C27 for the entry of the call
WrittenOnce ==
    /\ Len(RowLines) = Len(RowCalls)
    /\ TextsUpTo(Len(RowCalls)) = Unwrap(row).text
    /\ Exceeds => Len(RowLines) >= 2
    /\ ~Exceeds => Len(RowLines) = 1
    /\ Len(RowLines) >= 1
    /\ RowCalls[1].prefix = Unwrap(row).entry.prefix
    /\ RowCalls[1].suffix = Unwrap(row).entry.suffix
    /\ ShowsIn(RowLines[1], Unwrap(row).entry.prefix)
    /\ ShowsIn(RowLines[1], Unwrap(row).entry.suffix)
    /\ \A n \in 2..Len(RowCalls) : RowCalls[n].prefix = None /\ RowCalls[n].suffix = None

(***************************************************************************)
(* C27: in write_section_entry, when the composed row text exceeds the     *)
(* content width it is written as several lines whose texts concatenated   *)
(* in order equal the composed text; the entry's prefix and suffix are     *)
(* each written exactly once, on the first line written for the entry and  *)
(* on no later line; an entry that fits is written as exactly one line.    *)
(***************************************************************************)
C27_WrappedEntry == RowDone => WrittenOnce

\* C27 for the entries written in bordered mode without a panic
C27_BorderedNoPanic ==
    (/\ RowDone
     /\ ~Unwrap(row).formatter.simple_section
     /\ Unwrap(row).st.w.result = "Ok")
        => WrittenOnce

\* C27 but for the prefix, for the entries written in simplified mode whose
\* suffix is shorter than the content width
C27_SimpleShortSuffix ==
    (/\ RowDone
     /\ Unwrap(row).formatter.simple_section
     /\ Unwrap(row).st.w.result = "Ok"
     /\ Unwrap(row).entry.prefix = None
     /\ IsSome(Unwrap(row).entry.suffix) =>
            Cardinality(VisibleIndices(Unwrap(Unwrap(row).entry.suffix))) < ContentWidth)
        => WrittenOnce


(***************************************************************************)
(* C28: the active-handler slot is set once and then only read: in any     *)
(* sequential series of handler::fmt calls the first call installs the     *)
(* default handler when the slot is empty, no later call writes the slot,  *)
(* and every render after the first uses the same handler as the first.    *)
(***************************************************************************)
C28_SetOnceThenRead ==
    /\ fmtcalls = <<>> => HANDLER = None
    /\ fmtcalls # <<>> =>
           /\ fmtcalls[1].installed
           /\ fmtcalls[1].handler = DefaultHandler
           /\ HANDLER = Some(fmtcalls[1].handler)
           /\ \A i \in 2..Len(fmtcalls) :
                  /\ ~fmtcalls[i].installed
                  /\ fmtcalls[i].handler = fmtcalls[1].handler

\* three calls made, the third rendered its report
C28_Witness ==
    /\ Len(fmtcalls) >= 3
    /\ fmtcalls[3].result = "Ok"
    /\ fmtcalls[3].written # <<>>

\* the texts of the errors and of their chains of sources, in order
RECURSIVE ChainTexts(_)
ChainTexts(errs) ==
    IF errs = <<>> THEN <<>>
    ELSE <<Head(errs).text>> \o Head(errs).chain \o ChainTexts(Tail(errs))

FormatDone == IsSome(howler) /\ Unwrap(howler).pc = "done"

\* a title line shows "=======> " and the title
IsTitleLine(line) ==
    starts_with(VisibleText(line), <<"=", "=", "=", "=", "=", "=", "=", ">", " ">>)
TitleOf(line) == SubSeq(VisibleText(line), 10, Len(VisibleText(line)))

\* the titles written, in order
TitlesWritten ==
    LET titles == SelectSeq(Unwrap(howler).f, IsTitleLine)
    IN  [n \in 1..Len(titles) |-> TitleOf(titles[n])]

\* the numbered lines follow the Errors title, one per error and per source
\* of an error, numbered from 0, and the titles of the sections and of the
\* Backtrace follow them
NumberedThenSections ==
    LET f == Unwrap(howler).f
        texts == ChainTexts(Unwrap(howler).report.errors)
        secs == Unwrap(howler).report.sections
    IN  /\ Len(f) >= Len(texts) + 4
        /\ IsTitleLine(f[2])
        /\ \A k \in 0..(Len(texts) - 1) :
               Contains(VisibleText(f[3 + k]),
                        <<"#">> \o Decimal(k) \o <<" ", "|", " ">> \o texts[k + 1])
        /\ IsTitleLine(f[Len(texts) + 4])
        /\ TitlesWritten = <<TitleErrors>> \o [n \in 1..Len(secs) |-> secs[n].name]
                               \o <<TitleBacktrace>>

\* format has returned and has written what C29 says
FormatReturned == IF FormatDone THEN NumberedThenSections ELSE FALSE

\* the same, or the report has an error with a source
ReturnedOrHasSource ==
    IF IsSome(howler)
    THEN IF never_returns(Unwrap(howler).report) THEN TRUE ELSE FormatReturned
    ELSE FALSE

(***************************************************************************)
(* C29: ReportProcessor::format terminates for every report with finitely  *)
(* many errors, each with a finite source chain: it writes one numbered    *)
(* "#k" line per error and one per error in that error's source chain,     *)
(* numbered consecutively from 0, and then continues with the custom       *)
(* sections and the Backtrace.                                             *)
(***************************************************************************)
C29_FormatTerminates == <>FormatReturned

\* C29 for the reports none of whose errors has a source
C29_WithoutSources == <>ReturnedOrHasSource

\* format does not return for a report one of whose errors has a source
C29_SourceLoopForever ==
    (IsSome(howler) /\ never_returns(Unwrap(howler).report)) => ~FormatDone

(***************************************************************************)
(* C30: HowlerEntry::process_item returns a (module, value) pair for every *)
(* optional name without panicking, names that start with "<" but have no  *)
(* " as " inside the bracketed part (such as "<T>::method") included; an   *)
(* absent name yields (none, none).                                        *)
(***************************************************************************)
C30_ProcessItemTotal ==
    IsSome(itemresult) =>
        /\ ~Unwrap(itemresult).panicked
        /\ ~IsSome(Unwrap(itemname)) =>
               Unwrap(itemresult).module = None /\ Unwrap(itemresult).value = None

\* C30 for the names that do not start with "<" or have " as " in the
\* bracketed part
C30_TotalWithAs ==
    (/\ IsSome(itemresult)
     /\ IsSome(Unwrap(itemname)) =>
            \/ ~starts_with(Unwrap(Unwrap(itemname)), <<"<">>)
            \/ Contains(cast_loop([v |-> 0, done |-> FALSE, cast |-> <<>>, right |-> <<>>],
                                  Unwrap(Unwrap(itemname))).cast, As))
        => /\ ~Unwrap(itemresult).panicked
           /\ ~IsSome(Unwrap(itemname)) =>
                  Unwrap(itemresult).module = None /\ Unwrap(itemresult).value = None

====
